---- MODULE Spec2Model ----
(***************************************************************************)
(* Model of the Steve driver for EVE display controllers (class Steve,     *)
(* its helper class Steve::Index and the transport class SteveHAL), with   *)
(* a byte-level model of the chip at the other end of the SPI bus.         *)
(***************************************************************************)
EXTENDS Integers, Sequences, FiniteSets, TLC

VARIABLES
  pc,         \* position of the caller: "idle", or the step of the operation in progress
  ret,        \* value returned by the last completed operation
  op,         \* name of the operation in progress or last completed
  loc,        \* arguments and locals of the operation in progress
  cs,         \* SteveHAL_Arduino::_selected, the state of the !CS line
  txn,        \* bytes the chip has clocked in since it was last selected
  log,        \* transport calls made by the current operation, in order
  calls,      \* transactions requested by the current operation, in order
  mem,        \* chip memory (general RAM and registers), byte address -> byte
  script,     \* polled registers: <<value, number of reads>> runs their next reads return
  cmd_index,  \* Steve::_cmd_index
  dl_index,   \* Steve::_dl_index
  err,        \* the bool stored through pError: 0 or 1, -1 while nothing was stored
  ix,         \* a free-standing Steve::Index object with its history
  gh,         \* history of the command ring: synchronised index, bytes appended since
  profile     \* the SteveDisplay the driver was constructed with

vars == <<pc, ret, op, loc, cs, txn, log, calls, mem, script, cmd_index, dl_index, err, ix, gh, profile>>

-----------------------------------------------------------------------------
(* Bounds of the model *)

MaxTries   == 3     \* largest maxtries passed to a free-standing RegWait8
MaxScript  == 3     \* longest sequence of distinct future values of a polled register
MaxIndexOps == 3    \* number of += / -= applied to a free-standing Index
MaxCmds    == 2     \* commands appended to the ring in one run (SpecCmd, SpecExec)
MaxFreeCmds == 1026 \* commands appended to the ring in one run (SpecFree)
MaxBegins  == 2     \* calls of Begin in one run (SpecBegin)
MaxBusOps  == 2     \* transactions requested in one run (SpecBus)

-----------------------------------------------------------------------------
(* Fixed-width integer arithmetic *)

U8(x)  == x % 256
U16(x) == x % 65536

\* a uint32_t is kept as its two 16-bit halves
W32(hi, lo) == [hi |-> U16(hi), lo |-> U16(lo)]
\* a value below 2^31 as uint32_t
ToW32(x) == W32(x \div 65536, x % 65536)

\* conversion of an integer to int16_t
ToInt16(x) == IF U16(x) >= 32768 THEN U16(x) - 65536 ELSE U16(x)

\* a & b and a | b of values of at most n bits (n a power of 2), by halves
RECURSIVE BitAndIn(_, _, _)
BitAndIn(a, b, n) ==
  IF a = 0 \/ b = 0 THEN 0
  ELSE IF n = 1 THEN 1
  ELSE LET m == 2 ^ (n \div 2)
       IN  BitAndIn(a % m, b % m, n \div 2) + m * BitAndIn(a \div m, b \div m, n \div 2)

RECURSIVE BitOrIn(_, _, _)
BitOrIn(a, b, n) ==
  IF a = 0 THEN b
  ELSE IF b = 0 THEN a
  ELSE IF n = 1 THEN 1
  ELSE LET m == 2 ^ (n \div 2)
       IN  BitOrIn(a % m, b % m, n \div 2) + m * BitOrIn(a \div m, b \div m, n \div 2)

BitAnd(a, b) == BitAndIn(a, b, 32)

BitOr(a, b) == BitOrIn(a, b, 32)

Shr(x, n) == x \div (2 ^ n)

-----------------------------------------------------------------------------
(* Memory map and registers *)

RAM_G_SIZE    == 1048576
RAM_DL        == \h300000
RAM_REG       == \h302000
RAM_REG_SIZE  == 4096
RAM_CMD       == \h308000
RAM_DL_SIZE   == 8192
RAM_CMD_SIZE  == 4096
READ_INDEX_ERROR == \h0FFF

\* display list command words
ENC_CMD_DISPLAY     == W32(0, 0)
ENC_CMD_CLEAR_COLOR == W32(\h0200, 0)
ENC_CMD_CLEAR       == W32(\h2600, 0)

\* co-processor command words (all are 0xFFFFFFxx)
ENC_CMD_DLSTART == W32(\hFFFF, \hFF00)
ENC_CMD_SPINNER == W32(\hFFFF, \hFF16)
ENC_CMD_MEMCRC  == W32(\hFFFF, \hFF18)
ENC_CMD_GETPTR  == W32(\hFFFF, \hFF23)

HOSTCMD_ACTIVE   == \h000000
HOSTCMD_READ     == \h000000
HOSTCMD_CLKEXT   == \h440000
HOSTCMD_CLKINT   == \h480000
HOSTCMD_CLKSEL   == \h610000
HOSTCMD_PINDRIVE == \h700000
HOSTCMD_WRITE    == \h800000

REG_ID        == \h302000
REG_FREQUENCY == \h30200C
REG_CPURESET  == \h302020
REG_HCYCLE    == \h30202C
REG_HOFFSET   == \h302030
REG_HSIZE     == \h302034
REG_HSYNC0    == \h302038
REG_HSYNC1    == \h30203C
REG_VCYCLE    == \h302040
REG_VOFFSET   == \h302044
REG_VSIZE     == \h302048
REG_VSYNC0    == \h30204C
REG_VSYNC1    == \h302050
REG_DLSWAP    == \h302054
REG_OUTBITS   == \h30205C
REG_DITHER    == \h302060
REG_SWIZZLE   == \h302064
REG_CSPREAD   == \h302068
REG_PCLK_POL  == \h30206C
REG_PCLK      == \h302070
REG_GPIOX     == \h30209C
REG_PWM_HZ    == \h3020D0
REG_PWM_DUTY  == \h3020D4
REG_CMD_READ  == \h3020F8
REG_CMD_WRITE == \h3020FC
REG_TOUCH_MODE     == \h302104
REG_TOUCH_RZTHRESH == \h302118
REG_CHIP_ID   == \h0C0000

DLSWAP_FRAME  == 2

\* SteveDisplay::CHIPID
CHIPID_ANY    == W32(0, 0)
CHIPID_FT813  == W32(\h0001, \h1308)
CHIPID_BT815  == W32(\h0001, \h1508)

-----------------------------------------------------------------------------
(* Steve::Index<max_value> *)

\* Wrap masking with max_value instead of max_value - 1
IndexWrapWrongMask(max_value, index) == BitAnd(index, max_value)

\* Index::Wrap: _index &= (max_value - 1)
IndexWrap(max_value, index) == BitAnd(index, max_value - 1)

\* Index::Index(initial_value)
IndexNew(max_value, initial_value) == IndexWrap(max_value, U16(initial_value))

\* Index::operator+=(int16_t value): uint16_t addition, then Wrap
IndexAdd(max_value, index, value) == IndexWrap(max_value, U16(index + ToInt16(value)))

\* Index::operator-=(int16_t value)
IndexSub(max_value, index, value) == IndexWrap(max_value, U16(index - ToInt16(value)))

-----------------------------------------------------------------------------
(* The bus: transport calls and the chip's reaction to them.               *)
(* A "world" is the record of everything a transport call can change.      *)

World == [cs |-> cs, txn |-> txn, log |-> log, calls |-> calls,
          mem |-> mem, script |-> script, rx |-> 0]

Ev(name, a, b) == <<name, a, b>>

\* the one element of a singleton set; used to evaluate a world once
\* before it is used several times
The(S) == CHOOSE x \in S : TRUE
B2N(b) == IF b THEN 1 ELSE 0

\* what the chip returns for a read of one byte of its memory
ChipPeek(w, addr) ==
  IF addr \in DOMAIN w.script THEN Head(w.script[addr])[1]
  ELSE IF addr \in DOMAIN w.mem THEN w.mem[addr]
  ELSE 0

\* a polled register moves on to its next value once the current one has
\* been read the given number of times; the last value stays
ChipAfterRead(w, addr) ==
  IF addr \in DOMAIN w.script /\ Len(w.script[addr]) > 1
  THEN [w EXCEPT !.script[addr] =
          IF Head(@)[2] > 1 THEN <<<<Head(@)[1], Head(@)[2] - 1>>>> \o Tail(@) ELSE Tail(@)]
  ELSE w

\* The chip stores one byte.  The model keeps the contents of general RAM and
\* of the register block; what is written to the display list and to the
\* command ring is kept in txn and log only.
ChipPoke(w, addr, value) ==
  IF addr < RAM_G_SIZE \/ (addr >= RAM_REG /\ addr < RAM_REG + RAM_REG_SIZE)
  THEN [w EXCEPT !.mem = (addr :> value) @@ @]
  ELSE w

\* The chip clocks in one byte and shifts one out.  The first three bytes
\* after selection are the header; the top two bits of the header select a
\* memory write (10), a memory read (00, one dummy byte, then data) or a host
\* command (01).
ChipTransfer(w, value) ==
  LET n    == Len(w.txn)
      hdr  == w.txn[1] * 65536 + w.txn[2] * 256 + w.txn[3]
      top  == w.txn[1] \div 64
      base == hdr % (2 ^ 22)
      w1   == [w EXCEPT !.txn = Append(@, value)]
  IN  IF ~w.cs THEN [w EXCEPT !.rx = 255]
      ELSE IF n < 3 THEN [w1 EXCEPT !.rx = 0]
      ELSE IF top = 2 THEN [ChipPoke(w1, base + (n - 3), value) EXCEPT !.rx = 0]
      ELSE IF top = 0 /\ n >= 4
           THEN [ChipAfterRead(w1, base + (n - 4)) EXCEPT !.rx = ChipPeek(w, base + (n - 4))]
      ELSE [w1 EXCEPT !.rx = 0]

\* SteveHAL_Arduino::Select
Select(w, enable) ==
  LET result == (enable # w.cs)
  IN  [w EXCEPT !.cs  = enable,
                !.txn = IF result /\ enable THEN <<>> ELSE @,
                !.log = Append(@, Ev("Select", B2N(enable), B2N(result)))]

\* SteveHAL::Send8: Transfer(value), the byte received is dropped
Send8(w, value) ==
  The({ [w1 EXCEPT !.log = Append(@, Ev("Send8", U8(value), 0)), !.rx = 0] :
          w1 \in { ChipTransfer(w0, U8(value)) : w0 \in {w} } })

\* SteveHAL::Receive8: Transfer(0); the byte received is left in rx
Receive8(w) ==
  The({ [w1 EXCEPT !.log = Append(@, Ev("Receive8", 0, w1.rx))] :
          w1 \in { ChipTransfer(w0, 0) : w0 \in {w} } })

\* SteveHAL::Send16, little-endian
Send16(w, value) == Send8(Send8(w, U8(value)), U8(Shr(value, 8)))

\* SteveHAL::Send32, little-endian
Send32(w, value) ==
  Send8(Send8(Send8(Send8(w, U8(value.lo)), U8(Shr(value.lo, 8))), U8(value.hi)), U8(Shr(value.hi, 8)))

\* Receive16 that takes the first byte received as the most significant
Receive16BigEndian(w) ==
  LET w1 == Receive8(w)
      w2 == Receive8(w1)
  IN  [w2 EXCEPT !.rx = U16(BitOr(w2.rx, w1.rx * 256))]

\* SteveHAL::Receive16: the value received is left in rx
Receive16(w) ==
  LET w1 == Receive8(w)
      w2 == Receive8(w1)
  IN  [w2 EXCEPT !.rx = U16(BitOr(w1.rx, w2.rx * 256))]

\* SteveHAL::Receive32: the value received is left in rx
Receive32(w) ==
  LET w1 == Receive8(w)
      w2 == Receive8(w1)
      w3 == Receive8(w2)
      w4 == Receive8(w3)
  IN  [w4 EXCEPT !.rx = W32(BitOr(w3.rx, w4.rx * 256), BitOr(w1.rx, w2.rx * 256))]

\* SteveHAL::Delay
Delay(w, ms) == [w EXCEPT !.log = Append(@, Ev("Delay", ms, 0))]

\* SteveHAL::Power
Power(w, enable) == [w EXCEPT !.log = Append(@, Ev("Power", B2N(enable), 0))]

\* SteveHAL::Init
HalInit(w, slow) == [w EXCEPT !.log = Append(@, Ev("Init", B2N(slow), 0))]

\* SteveHAL::Pause
HalPause(w, pause) == [w EXCEPT !.log = Append(@, Ev("Pause", B2N(pause), 0))]

-----------------------------------------------------------------------------
(* Steve: transactions *)

\* a transaction requested by the driver: kind, 24-bit word, position of its
\* first transport call in the log
Note(w, kind, word) == [w EXCEPT !.calls = Append(@, <<kind, word, Len(w.log) + 1>>)]

\* Steve::EndTransaction
EndTransaction(w) == Select(w, FALSE)

\* BeginTransaction that does not end the previous transaction first
BeginTransactionNoDeselect(w, data24) ==
  LET w1 == Select(w, TRUE)
  IN  Send8(Send8(Send8(w1, U8(Shr(data24, 16))), U8(Shr(data24, 8))), U8(data24))

\* Steve::BeginTransaction
BeginTransaction(w, data24) ==
  LET w1 == Select(EndTransaction(w), TRUE)
  IN  Send8(Send8(Send8(w1, U8(Shr(data24, 16))), U8(Shr(data24, 8))), U8(data24))

\* Steve::BeginMemoryTransaction
BeginMemoryTransaction(w, address22, write) ==
  LET w1 == BeginTransaction(w, BitOr(IF write THEN HOSTCMD_WRITE ELSE HOSTCMD_READ, address22))
  IN  IF ~write THEN Send8(w1, 0) ELSE w1

\* Steve::HostCommand
HostCommand(w, hostcmd, parameter) ==
  The({ BeginTransaction(Note(w0, "host", BitOr(hostcmd, U8(parameter) * 256)),
                         BitOr(hostcmd, U8(parameter) * 256)) : w0 \in {w} })

-----------------------------------------------------------------------------
(* Steve: memory operations.  A read leaves its result in rx. *)

RegRead8(w, address22) ==
  The({ Receive8(BeginMemoryTransaction(Note(w0, "read", address22), address22, FALSE)) : w0 \in {w} })

RegRead16(w, address22) ==
  The({ Receive16(BeginMemoryTransaction(Note(w0, "read", address22), address22, FALSE)) : w0 \in {w} })

RegRead32(w, address22) ==
  The({ Receive32(BeginMemoryTransaction(Note(w0, "read", address22), address22, FALSE)) : w0 \in {w} })

\* RegWrite8 that ends its transaction before it returns
RegWrite8Closes(w, address22, value) ==
  The({ Select(Send8(BeginMemoryTransaction(Note(w0, "write", address22), address22, TRUE), U8(value)), FALSE) :
          w0 \in {w} })

RegWrite8(w, address22, value) ==
  The({ Send8(BeginMemoryTransaction(Note(w0, "write", address22), address22, TRUE), U8(value)) : w0 \in {w} })

RegWrite16(w, address22, value) ==
  The({ Send16(BeginMemoryTransaction(Note(w0, "write", address22), address22, TRUE), U16(value)) : w0 \in {w} })

RegWrite32(w, address22, value) ==
  The({ Send32(BeginMemoryTransaction(Note(w0, "write", address22), address22, TRUE), value) : w0 \in {w} })

\* SteveHAL::ReceiveBuffer: `len` more bytes are appended to `buffer`
RECURSIVE ReceiveBuffer(_, _, _)
ReceiveBuffer(w, len, buffer) ==
  IF len = 0 THEN [w |-> w, buffer |-> buffer, result |-> Len(buffer)]
  ELSE The({ ReceiveBuffer(w1, len - 1, Append(buffer, w1.rx)) : w1 \in { Receive8(w) } })

\* SteveHAL::SendBuffer: returns the world after the bytes of `data` were sent
RECURSIVE SendBuffer(_, _)
SendBuffer(w, data) ==
  IF data = <<>> THEN w
  ELSE The({ SendBuffer(w1, Tail(data)) : w1 \in { Send8(w, Head(data)) } })

\* SteveHAL::SendBuffer for a buffer of which only the length matters: the
\* len calls of Send8 are recorded as one event that carries their number (the
\* bytes go to the command ring, which the chip model does not store)
SendBufferLen(w, len) == [w EXCEPT !.log = Append(@, Ev("SendBuffer", len, 0))]

\* SteveHAL::SendAlignmentBytes: zero bytes until the count is a multiple of 4
RECURSIVE SendAlignmentBytes(_, _)
SendAlignmentBytes(w, num) ==
  IF num % 4 = 0 THEN [w |-> w, result |-> num]
  ELSE The({ SendAlignmentBytes(w1, num + 1) : w1 \in { Send8(w, 0) } })

\* A message is [null, chars]: a NULL pointer, or the characters before the
\* terminating nul.  The pointer SendString walks:
StringChars(message) == IF message.null THEN <<>> ELSE message.chars

\* The condition of the for loop of SendString, result < maxlen - 1, both
\* operands uint16_t.  Where int has 16 bits they convert to unsigned int and
\* the subtraction wraps; where int is wider they are promoted to int and the
\* difference is signed.
SendStringMore(result, maxlen, int_bits) ==
  IF int_bits = 16 THEN result < U16(maxlen - 1) ELSE result < maxlen - 1

\* the for loop of SteveHAL::SendString, entered with `result` characters sent
RECURSIVE SendStringLoop(_, _, _, _, _)
SendStringLoop(w, s, maxlen, result, int_bits) ==
  LET c == IF result + 1 <= Len(s) THEN s[result + 1] ELSE 0
  IN  IF ~SendStringMore(result, maxlen, int_bits) \/ c = 0
      THEN [w |-> w, result |-> result]
      ELSE The({ SendStringLoop(w1, s, maxlen, U16(result + 1), int_bits) :
                   w1 \in { Send8(w, c) } })

\* SendString that leaves out the terminator
SendStringNoNul(w, message, maxlen, int_bits) ==
  SendStringLoop(w, StringChars(message), maxlen, 0, int_bits)

\* SteveHAL::SendString: the characters, then always a nul
SendString(w, message, maxlen, int_bits) ==
  The({ [w |-> Send8(r.w, 0), result |-> U16(r.result + 1)] :
          r \in { SendStringLoop(w, StringChars(message), maxlen, 0, int_bits) } })

\* Steve::RegReadBuffer
RegReadBuffer(w, address22, length) ==
  The({ [w |-> r.w, buffer |-> r.buffer, next |-> address22 + r.result] :
          r \in { ReceiveBuffer(BeginMemoryTransaction(Note(w, "read", address22), address22, FALSE),
                                 length, <<>>) } })

\* Steve::RegWriteBuffer
RegWriteBuffer(w, address22, source) ==
  [w    |-> SendBuffer(BeginMemoryTransaction(Note(w, "write", address22), address22, TRUE), source),
   next |-> address22 + Len(source)]

\* the body of the loop of RegWait8 without the delay after a mismatch
RegWait8TryNoDelay(w, address22, value, result, delay_between_tries) ==
  The({ [w |-> w1, result |-> U8(result - 1), match |-> (w1.rx = value)] :
          w1 \in { RegRead8(w, address22) } })

\* the body of the loop of RegWait8 without the count of the tries
RegWait8TryNoCount(w, address22, value, result, delay_between_tries) ==
  The({ [w      |-> IF w1.rx = value THEN w1 ELSE Delay(w1, delay_between_tries),
         result |-> result,
         match  |-> (w1.rx = value)] :
          w1 \in { RegRead8(w, address22) } })

\* one pass through the body of the loop of Steve::RegWait8, entered with
\* `result` tries left: the read, --result, the comparison, the delay
RegWait8Try(w, address22, value, result, delay_between_tries) ==
  The({ [w      |-> IF w1.rx = value THEN w1 ELSE Delay(w1, delay_between_tries),
         result |-> U8(result - 1),
         match  |-> (w1.rx = value)] :
          w1 \in { RegRead8(w, address22) } })

\* the loop of Steve::RegWait8, entered with `result` tries left; the
\* value returned is left in rx
RECURSIVE RegWait8Loop(_, _, _, _, _)
RegWait8Loop(w, address22, value, result, delay_between_tries) ==
  IF result = 0 THEN [w EXCEPT !.rx = 0]
  ELSE The({ IF t.match THEN [t.w EXCEPT !.rx = t.result]
             ELSE RegWait8Loop(t.w, address22, value, t.result, delay_between_tries) :
               t \in { RegWait8Try(w, address22, value, result, delay_between_tries) } })

\* Steve::RegWait8
RegWait8(w, address22, value, maxtries, delay_between_tries) ==
  RegWait8Loop(w, address22, value, U8(maxtries), delay_between_tries)

-----------------------------------------------------------------------------
(* Steve: display list *)

W32Or(a, b) == W32(BitOr(a.hi, b.hi), BitOr(a.lo, b.lo))

\* the N macro, for fields that end below bit 31
N(value, leftbit, rightbit) ==
  BitAnd(value, 2 ^ ((leftbit - rightbit) + 1) - 1) * (2 ^ rightbit)

ENC_CLEAR_COLOR(rgb24) == W32Or(ENC_CMD_CLEAR_COLOR, ToW32(N(rgb24, 23, 0)))

ENC_CLEAR(color1, stencil1, tag1) ==
  W32Or(ENC_CMD_CLEAR, ToW32(BitOr(BitOr(N(color1, 2, 2), N(stencil1, 1, 1)), N(tag1, 0, 0))))

ENC_DISPLAY == W32Or(ENC_CMD_DISPLAY, ToW32(0))

\* the transaction of Steve::DLAdd
DLAdd(w, di, value) == RegWrite32(w, RAM_DL + di, value)

\* _dl_index += 4 wrapped to the size of the command ring
DLNextRingSize(di) == IndexAdd(RAM_CMD_SIZE, di, 4)

\* the index Steve::DLAdd returns: _dl_index += 4
DLNext(di) == IndexAdd(RAM_DL_SIZE, di, 4)

\* Steve::DLResetIndex: _dl_index = index
DLResetIndex(index) == IndexNew(RAM_DL_SIZE, index)

-----------------------------------------------------------------------------
(* Steve: co-processor support *)

\* 16-bit little-endian value held by chip memory at addr
Mem16(m, addr) ==
  (IF addr \in DOMAIN m THEN m[addr] ELSE 0)
  + 256 * (IF addr + 1 \in DOMAIN m THEN m[addr + 1] ELSE 0)

Put16(m, addr, value) ==
  (addr :> U8(value)) @@ ((addr + 1) :> U8(Shr(value, 8))) @@ m

\* CmdInitWriteIndex taking the index from the read pointer
CmdInitWriteIndexFromRead(w) ==
  LET w1 == RegRead16(w, REG_CMD_READ)
  IN  [w1 EXCEPT !.rx = IndexNew(RAM_CMD_SIZE, w1.rx)]

\* Steve::CmdInitWriteIndex: the new _cmd_index is left in rx
CmdInitWriteIndex(w) ==
  LET w1 == RegRead16(w, REG_CMD_WRITE)
  IN  [w1 EXCEPT !.rx = IndexNew(RAM_CMD_SIZE, w1.rx)]

\* used space as a plain uint16_t difference, not wrapped to the ring
CmdUsedSpaceNoWrap(ci, readindex) == U16(ci - readindex)

\* used_space of Steve::CmdGetFreeCmdSpace: (_cmd_index - readindex).index()
CmdUsedSpace(ci, readindex) ==
  IndexSub(RAM_CMD_SIZE, IndexNew(RAM_CMD_SIZE, ci), readindex)

\* CmdGetFreeCmdSpace that takes the whole ring as the total space
CmdGetFreeCmdSpaceNoReserve(w, ci) ==
  LET w1 == RegRead16(w, REG_CMD_READ)
  IN  [w1 EXCEPT !.rx = U16(RAM_CMD_SIZE - CmdUsedSpace(ci, w1.rx))]

\* Steve::CmdGetFreeCmdSpace: the result is left in rx
CmdGetFreeCmdSpace(w, ci) ==
  LET w1 == RegRead16(w, REG_CMD_READ)
  IN  [w1 EXCEPT !.rx = U16((RAM_CMD_SIZE - 4) - CmdUsedSpace(ci, w1.rx))]

\* the transaction of Steve::Cmd
Cmd(w, ci, command) ==
  Send32(BeginMemoryTransaction(Note(w, "write", RAM_CMD + ci), RAM_CMD + ci, TRUE), command)

\* _cmd_index += 4 on a plain uint16_t, without Wrap()
CmdNextNoWrap(ci) == U16(ci + 4)

\* the index Steve::Cmd returns: _cmd_index += 4
CmdNext(ci) == IndexAdd(RAM_CMD_SIZE, ci, 4)

\* CmdIsBusy without the test for the fault value
CmdBusyResultNoFault(readindex, ci) ==
  [error |-> FALSE, busy |-> (readindex # ci)]

\* CmdIsBusy that reports the fault but stays busy on it
CmdBusyResultBusyOnFault(readindex, ci) ==
  [error |-> (readindex = READ_INDEX_ERROR), busy |-> (readindex # ci)]

\* the two results of Steve::CmdIsBusy for the read index it read
CmdBusyResult(readindex, ci) ==
  LET error == (readindex = READ_INDEX_ERROR)
  IN  [error |-> error, busy |-> (~error) /\ (readindex # ci)]

\* CmdIsBusy polling the write pointer
CmdIsBusyReadsWrite(w) == RegRead16(w, REG_CMD_WRITE)

\* the register read of Steve::CmdIsBusy
CmdIsBusy(w) == RegRead16(w, REG_CMD_READ)

\* CmdExecute storing the index in the read pointer
CmdExecuteWritesRead(w, ci) == RegWrite16(w, REG_CMD_READ, ci)

\* the register write of Steve::CmdExecute
CmdExecuteWrite(w, ci) == RegWrite16(w, REG_CMD_WRITE, ci)

-----------------------------------------------------------------------------
(* Initial values *)

NoLoc == [none |-> 0]

\* SteveDisplay::SteveDisplay, with the fields a profile may override
DefaultProfile ==
  [clkext |-> FALSE, clksel |-> 0, chipid |-> ToW32(0), frequency |-> ToW32(0),
   lcd10ma |-> FALSE, cspread |-> FALSE, dither |-> FALSE, outbits |-> 0,
   hsize |-> 480, hcycle |-> 1042, hoffset |-> 41, hsync0 |-> 24, hsync1 |-> 35,
   vsize |-> 128, vcycle |-> 137, voffset |-> 8, vsync0 |-> 4, vsync1 |-> 5,
   swizzle |-> 0, pclkpol |-> 1, pclk |-> 7, pindrivetable |-> <<>>, haspindrive |-> FALSE]

InitCtl == pc = "idle" /\ ret = 0 /\ op = "none" /\ loc = NoLoc
InitBus == cs = FALSE /\ txn = <<>> /\ log = <<>> /\ calls = <<>>
InitDrv == cmd_index = IndexNew(RAM_CMD_SIZE, 0) /\ dl_index = IndexNew(RAM_DL_SIZE, 0) /\ err = -1
InitIx  == ix = [M |-> RAM_CMD_SIZE, seed |-> 0, index |-> IndexNew(RAM_CMD_SIZE, 0), sum |-> 0, n |-> 0]
InitGh  == gh = [synced |-> FALSE, syncval |-> 0, appended |-> 0, total |-> 0, begins |-> 0, ops |-> 0]
InitMem(rp, wp) == mem = Put16(Put16(<<>>, REG_CMD_READ, rp), REG_CMD_WRITE, wp)
SteadyScript == (REG_ID :> << <<\h7C, 1>> >>) @@ (REG_CPURESET :> << <<0, 1>> >>)

\* the world at the entry of an operation: the records of the previous one are dropped
Fresh == [World EXCEPT !.log = <<>>, !.calls = <<>>]

Commit(w) ==
  /\ cs' = w.cs /\ txn' = w.txn /\ log' = w.log /\ calls' = w.calls
  /\ mem' = w.mem /\ script' = w.script

-----------------------------------------------------------------------------
(* A free-standing Index object (specification SpecIndex) *)

IndexSeeds  == {0, 1, 4095, 4096, 8191, 8192, 65535}
IndexDeltas == {-32768, -4097, -1, 4, 4095, 32767}

InitIndex ==
  /\ InitCtl /\ InitBus /\ InitDrv /\ InitGh /\ InitMem(0, 0)
  /\ script = SteadyScript /\ profile = DefaultProfile
  /\ \E M \in {RAM_CMD_SIZE, RAM_DL_SIZE}, seed \in IndexSeeds :
       ix = [M |-> M, seed |-> seed, index |-> IndexNew(M, seed), sum |-> 0, n |-> 0]

\* index += value
IndexPlus(value) ==
  /\ ix.n < MaxIndexOps
  /\ ix' = [ix EXCEPT !.index = IndexAdd(ix.M, ix.index, value), !.sum = @ + value, !.n = @ + 1]
  /\ UNCHANGED <<pc, ret, op, loc, cs, txn, log, calls, mem, script, cmd_index, dl_index, err, gh, profile>>

\* index -= value
IndexMinus(value) ==
  /\ ix.n < MaxIndexOps
  /\ ix' = [ix EXCEPT !.index = IndexSub(ix.M, ix.index, value), !.sum = @ - value, !.n = @ + 1]
  /\ UNCHANGED <<pc, ret, op, loc, cs, txn, log, calls, mem, script, cmd_index, dl_index, err, gh, profile>>

NextIndex ==
  \/ \E value \in IndexDeltas : IndexPlus(value)
  \/ \E value \in IndexDeltas : IndexMinus(value)

SpecIndex == InitIndex /\ [][NextIndex]_vars

\* C5: for both moduli, after construction from any 16-bit seed and any
\* sequence of += and -= with int16 deltas, index() lies in [0, M) and equals
\* (seed + sum of the signed deltas) mod M.
C5_IndexWrappedSum ==
  /\ ix.index \in 0 .. (ix.M - 1)
  /\ ix.index = (ix.seed + ix.sum) % ix.M

\* a run that went below zero and one that went beyond 16 bits
C5_Witness == ix.n >= 2 /\ ix.seed + ix.sum < 0 /\ ix.M = RAM_DL_SIZE /\ ix.index # 0

-----------------------------------------------------------------------------
(* RegWait8 on its own (specification SpecWait) *)

PollValues == {0, \h7C}
RECURSIVE ScriptsUpTo(_)
ScriptsUpTo(n) ==
  IF n = 1 THEN {<< <<v, 1>> >> : v \in PollValues}
  ELSE ScriptsUpTo(n - 1) \cup {<< <<v, 1>> >> \o s : v \in PollValues, s \in {t \in ScriptsUpTo(n - 1) : Len(t) = n - 1}}

InitWait ==
  /\ InitCtl /\ InitBus /\ InitDrv /\ InitGh /\ InitIx /\ InitMem(0, 0)
  /\ profile = DefaultProfile
  /\ \E s1 \in ScriptsUpTo(MaxScript), s2 \in ScriptsUpTo(MaxScript) :
       script = (REG_ID :> s1) @@ (REG_CPURESET :> s2)

DoRegWait8(address22, value, maxtries, delay_between_tries) ==
  /\ pc = "idle"
  /\ LET w == RegWait8(Fresh, address22, value, maxtries, delay_between_tries)
     IN  /\ Commit(w)
         /\ ret' = w.rx
  /\ op' = "RegWait8"
  /\ loc' = [address22 |-> address22, value |-> value, maxtries |-> maxtries]
  /\ UNCHANGED <<pc, cmd_index, dl_index, err, ix, gh, profile>>

NextWait ==
  \E address22 \in {REG_ID, REG_CPURESET}, value \in PollValues, maxtries \in 0 .. MaxTries :
    DoRegWait8(address22, value, maxtries, 1)

SpecWait == InitWait /\ [][NextWait]_vars

IsRecv(e) == e[1] = "Receive8"
IsSend(e) == e[1] = "Send8"
IsXfer(e) == e[1] \in {"Send8", "Receive8"}

\* C1: RegWait8 performs at most maxtries reads, stops at the first read equal
\* to value, and returns 0 if and only if none of its reads returned value;
\* when a read returns value the result is nonzero and is the number of
\* tries left unused.
C1_RegWait8Result ==
  (op = "RegWait8" /\ pc = "idle") =>
    LET rv  == SelectSeq(log, IsRecv)
        n   == Len(rv)
        hit == \E i \in 1 .. n : rv[i][3] = loc.value
    IN  /\ n <= loc.maxtries
        /\ \A i \in 1 .. (n - 1) : rv[i][3] # loc.value
        /\ (ret = 0 <=> ~hit)
        /\ (hit => (ret # 0 /\ ret = loc.maxtries - n))

-----------------------------------------------------------------------------
(* Co-processor command records (the CMD macro and its field macros) *)

\* Q4 storing the index behind the slot instead of the index of the slot
Q4IndexAfterSlot(ci, result) ==
  IndexAdd(RAM_CMD_SIZE, IndexNew(RAM_CMD_SIZE, ci), result + 4)

\* the index the Q4 macro stores through a non-NULL pointer: _cmd_index + result
Q4Index(ci, result) ==
  IndexAdd(RAM_CMD_SIZE, IndexNew(RAM_CMD_SIZE, ci), result)

\* The fields after the command word, sent in order.  A field is
\* <<"V2", value>>, <<"V4", value>>, <<"Q4", has_pointer>>,
\* <<"SS", message, maxlen, int_bits>> (int_bits: the width of int of the
\* build), <<"MM", data>> (the len bytes at value) or <<"MMn", len>> (a buffer
\* given by its length alone).  `result` is the int16_t
\* byte count of the macro, `ci` the command index after Cmd, `outs` what each
\* Q4 stored through its pointer so far (-1: the pointer is NULL, nothing is
\* stored).
\* one field macro: the world after it, the bytes it adds to result, outs
CmdField(w, f, result, ci, outs) ==
  IF f[1] = "V2" THEN [w |-> Send16(w, U16(f[2])), n |-> 2, outs |-> outs]
  ELSE IF f[1] = "V4" THEN [w |-> Send32(w, f[2]), n |-> 4, outs |-> outs]
  ELSE IF f[1] = "SS"
  THEN The({ [w |-> r.w, n |-> r.result, outs |-> outs] :
               r \in { SendAlignmentBytes(sent.w, sent.result) :
                         sent \in { SendString(w, f[2], f[3], f[4]) } } })
  ELSE IF f[1] = "MM"
  THEN The({ [w |-> r.w, n |-> r.result, outs |-> outs] :
               r \in { SendAlignmentBytes(SendBuffer(w, f[2]), Len(f[2])) } })
  ELSE IF f[1] = "MMn"
  THEN The({ [w |-> r.w, n |-> r.result, outs |-> outs] :
               r \in { SendAlignmentBytes(SendBufferLen(w, f[2]), f[2]) } })
  ELSE [w |-> Send32(w, ToW32(0)), n |-> 4,
        outs |-> Append(outs, IF f[2] THEN Q4Index(ci, result) ELSE -1)]

\* conversion to int16_t that stops at the largest and the smallest value
Saturate16(x) == IF x > 32767 THEN 32767 ELSE IF x < -32768 THEN -32768 ELSE x

\* the value list of a CMD with a byte count that saturates
RECURSIVE CmdFieldsSaturate(_, _, _, _, _)
CmdFieldsSaturate(w, fields, result, ci, outs) ==
  IF fields = <<>> THEN [w |-> w, result |-> result, outs |-> outs]
  ELSE The({ CmdFieldsSaturate(s.w, Tail(fields), Saturate16(result + s.n), ci, s.outs) :
               s \in { CmdField(w, Head(fields), result, ci, outs) } })

\* the value list of a CMD: its field macros one after the other
RECURSIVE CmdFields(_, _, _, _, _)
CmdFields(w, fields, result, ci, outs) ==
  IF fields = <<>> THEN [w |-> w, result |-> result, outs |-> outs]
  ELSE The({ CmdFields(s.w, Tail(fields), ToInt16(result + s.n), ci, s.outs) :
               s \in { CmdField(w, Head(fields), result, ci, outs) } })

\* the body of a cmd_ function generated by CMD(name, declaration, value):
\* Cmd(ENC_CMD_name), the fields, then _cmd_index += result
CmdRecord(w, ci, command, fields) ==
  LET c1 == CmdNext(ci)
      r  == CmdFields(Cmd(w, ci, command), fields, 0, c1, <<>>)
  IN  [w |-> r.w, index |-> IndexAdd(RAM_CMD_SIZE, c1, r.result), outs |-> r.outs, bytes |-> 4 + r.result]

\* the cmd_ functions of the model: command word and fields
CmdTable ==
  [ SPINNER |-> [command |-> ENC_CMD_SPINNER, fields |-> << <<"V2", 240>>, <<"V2", 64>>, <<"V2", 0>>, <<"V2", 1>> >>],
    MEMCRC  |-> [command |-> ENC_CMD_MEMCRC,  fields |-> << <<"V4", ToW32(0)>>, <<"V4", ToW32(1024)>>, <<"Q4", TRUE>> >>],
    GETPTR  |-> [command |-> ENC_CMD_GETPTR,  fields |-> << <<"Q4", TRUE>> >>] ]

\* Every cmd_ function the CMD macro generates: the low byte of ENC_CMD_name
\* (the upper three bytes are FF) and the field macros of its value list, in
\* order.
CmdProtos ==
  [
    APILEVEL         |-> [code |-> \h63, shape |-> <<"V4">>],
    DLSTART          |-> [code |-> \h00, shape |-> <<>>],
    SWAP             |-> [code |-> \h01, shape |-> <<>>],
    COLDSTART        |-> [code |-> \h32, shape |-> <<>>],
    INTERRUPT        |-> [code |-> \h02, shape |-> <<"V4">>],
    APPEND           |-> [code |-> \h1E, shape |-> <<"V4", "V4">>],
    REGREAD          |-> [code |-> \h19, shape |-> <<"V4", "V4">>],
    MEMWRITE         |-> [code |-> \h1A, shape |-> <<"V4", "V4", "MM">>],
    INFLATE          |-> [code |-> \h22, shape |-> <<"V4", "MM">>],
    INFLATE2         |-> [code |-> \h50, shape |-> <<"V4", "V4", "MM">>],
    LOADIMAGE        |-> [code |-> \h24, shape |-> <<"V4", "V4", "MM">>],
    MEDIAFIFO        |-> [code |-> \h39, shape |-> <<"V4", "V4">>],
    PLAYVIDEO        |-> [code |-> \h3A, shape |-> <<"V4">>],
    VIDEOSTART       |-> [code |-> \h40, shape |-> <<>>],
    VIDEOFRAME       |-> [code |-> \h41, shape |-> <<"V4", "V4">>],
    MEMCRC           |-> [code |-> \h18, shape |-> <<"V4", "V4", "Q4">>],
    MEMZERO          |-> [code |-> \h1C, shape |-> <<"V4", "V4">>],
    MEMSET           |-> [code |-> \h1B, shape |-> <<"V4", "V4", "V4">>],
    MEMCPY           |-> [code |-> \h1D, shape |-> <<"V4", "V4", "V4">>],
    BUTTON           |-> [code |-> \h0D, shape |-> <<"V2", "V2", "V2", "V2", "V2", "V2", "SS">>],
    CLOCK            |-> [code |-> \h14, shape |-> <<"V2", "V2", "V2", "V2", "V2", "V2", "V2", "V2">>],
    FGCOLOR          |-> [code |-> \h0A, shape |-> <<"V4">>],
    BGCOLOR          |-> [code |-> \h09, shape |-> <<"V4">>],
    GRADCOLOR        |-> [code |-> \h34, shape |-> <<"V4">>],
    GAUGE            |-> [code |-> \h13, shape |-> <<"V2", "V2", "V2", "V2", "V2", "V2", "V2", "V2">>],
    GRADIENT         |-> [code |-> \h0B, shape |-> <<"V2", "V2", "V4", "V2", "V2", "V4">>],
    GRADIENTA        |-> [code |-> \h57, shape |-> <<"V2", "V2", "V4", "V2", "V2", "V4">>],
    KEYS             |-> [code |-> \h0E, shape |-> <<"V2", "V2", "V2", "V2", "V2", "SS">>],
    PROGRESS         |-> [code |-> \h0F, shape |-> <<"V2", "V2", "V2", "V2", "V2", "V2", "V2", "V2">>],
    SCROLLBAR        |-> [code |-> \h11, shape |-> <<"V2", "V2", "V2", "V2", "V2", "V2", "V2", "V2">>],
    SLIDER           |-> [code |-> \h10, shape |-> <<"V2", "V2", "V2", "V2", "V2", "V2", "V2", "V2">>],
    DIAL             |-> [code |-> \h2D, shape |-> <<"V2", "V2", "V2", "V2", "V2", "V2">>],
    TOGGLE           |-> [code |-> \h12, shape |-> <<"V2", "V2", "V2", "V2", "V2", "V2", "SS">>],
    FILLWIDTH        |-> [code |-> \h58, shape |-> <<"V4">>],
    TEXT             |-> [code |-> \h0C, shape |-> <<"V2", "V2", "V2", "V2", "SS">>],
    SETBASE          |-> [code |-> \h38, shape |-> <<"V4">>],
    NUMBER           |-> [code |-> \h2E, shape |-> <<"V2", "V2", "V2", "V2", "V4">>],
    LOADIDENTITY     |-> [code |-> \h26, shape |-> <<>>],
    SETMATRIX        |-> [code |-> \h2A, shape |-> <<>>],
    GETMATRIX        |-> [code |-> \h33, shape |-> <<"Q4", "Q4", "Q4", "Q4", "Q4", "Q4">>],
    GETPTR           |-> [code |-> \h23, shape |-> <<"Q4">>],
    GETPROPS         |-> [code |-> \h25, shape |-> <<"Q4", "Q4", "Q4">>],
    SCALE            |-> [code |-> \h28, shape |-> <<"V4", "V4">>],
    ROTATE           |-> [code |-> \h29, shape |-> <<"V4">>],
    ROTATEAROUND     |-> [code |-> \h51, shape |-> <<"V4", "V4", "V4", "V4">>],
    TRANSLATE        |-> [code |-> \h27, shape |-> <<"V4", "V4">>],
    CALIBRATE        |-> [code |-> \h15, shape |-> <<"Q4">>],
    CALIBRATESUB     |-> [code |-> \h60, shape |-> <<"V2", "V2", "V2", "V2", "Q4">>],
    SETROTATE        |-> [code |-> \h36, shape |-> <<"V4">>],
    SPINNER          |-> [code |-> \h16, shape |-> <<"V2", "V2", "V2", "V2">>],
    SCREENSAVER      |-> [code |-> \h2F, shape |-> <<>>],
    SKETCH           |-> [code |-> \h30, shape |-> <<"V2", "V2", "V2", "V2", "V4", "V2", "V2">>],
    STOP             |-> [code |-> \h17, shape |-> <<>>],
    SETFONT          |-> [code |-> \h2B, shape |-> <<"V4", "V4">>],
    SETFONT2         |-> [code |-> \h3B, shape |-> <<"V4", "V4", "V4">>],
    SETSCRATCH       |-> [code |-> \h3C, shape |-> <<"V4">>],
    ROMFONT          |-> [code |-> \h3F, shape |-> <<"V4", "V4">>],
    RESETFONTS       |-> [code |-> \h52, shape |-> <<>>],
    TRACK            |-> [code |-> \h2C, shape |-> <<"V2", "V2", "V2", "V2", "V2", "V2">>],
    SNAPSHOT         |-> [code |-> \h1F, shape |-> <<"V4">>],
    SNAPSHOT2        |-> [code |-> \h37, shape |-> <<"V4", "V4", "V2", "V2", "V2", "V2">>],
    SETBITMAP        |-> [code |-> \h43, shape |-> <<"V4", "V2", "V2", "V2", "V2">>],
    LOGO             |-> [code |-> \h31, shape |-> <<>>],
    CSKETCH          |-> [code |-> \h35, shape |-> <<"V2", "V2", "V2", "V2", "V4", "V2", "V2">>],
    FLASHERASE       |-> [code |-> \h44, shape |-> <<>>],
    FLASHWRITE       |-> [code |-> \h45, shape |-> <<"V4", "V4", "MM">>],
    FLASHPROGRAM     |-> [code |-> \h70, shape |-> <<"V4", "V4", "V4">>],
    FLASHREAD        |-> [code |-> \h46, shape |-> <<"V4", "V4", "V4">>],
    FLASHUPDATE      |-> [code |-> \h47, shape |-> <<"V4", "V4", "V4">>],
    FLASHDETACH      |-> [code |-> \h48, shape |-> <<>>],
    FLASHATTACH      |-> [code |-> \h49, shape |-> <<>>],
    FLASHFAST        |-> [code |-> \h4A, shape |-> <<"Q4">>],
    FLASHSPIDESEL    |-> [code |-> \h4B, shape |-> <<>>],
    FLASHSPITX       |-> [code |-> \h4C, shape |-> <<"V4", "MM">>],
    FLASHSPIRX       |-> [code |-> \h4D, shape |-> <<"V4", "V4">>],
    CLEARCACHE       |-> [code |-> \h4F, shape |-> <<>>],
    FLASHSOURCE      |-> [code |-> \h4E, shape |-> <<"V4">>],
    VIDEOSTARTF      |-> [code |-> \h5F, shape |-> <<>>],
    ANIMSTART        |-> [code |-> \h53, shape |-> <<"V4", "V4", "V4">>],
    ANIMSTARTRAM     |-> [code |-> \h6E, shape |-> <<"V4", "V4", "V4">>],
    RUNANIM          |-> [code |-> \h6F, shape |-> <<"V4", "V4">>],
    ANIMSTOP         |-> [code |-> \h54, shape |-> <<"V4">>],
    ANIMXY           |-> [code |-> \h55, shape |-> <<"V4", "V2", "V2">>],
    ANIMDRAW         |-> [code |-> \h56, shape |-> <<"V4">>],
    ANIMFRAME        |-> [code |-> \h5A, shape |-> <<"V2", "V2", "V4", "V4">>],
    ANIMFRAMERAM     |-> [code |-> \h6D, shape |-> <<"V2", "V2", "V4", "V4">>],
    SYNC             |-> [code |-> \h42, shape |-> <<>>],
    BITMAP_TRANSFORM |-> [code |-> \h21, shape |-> <<"V4", "V4", "V4", "V4", "V4", "V4", "V4", "V4", "V4", "V4", "V4", "V4", "Q4">>],
    TESTCARD         |-> [code |-> \h61, shape |-> <<>>],
    WAIT             |-> [code |-> \h65, shape |-> <<"V4">>],
    NEWLIST          |-> [code |-> \h68, shape |-> <<"V4">>],
    ENDLIST          |-> [code |-> \h69, shape |-> <<>>],
    CALLLIST         |-> [code |-> \h67, shape |-> <<"V4">>],
    RETURNCMD        |-> [code |-> \h66, shape |-> <<>>],
    FONTCACHE        |-> [code |-> \h6B, shape |-> <<"V4", "V4", "V4">>],
    FONTCACHEQUERY   |-> [code |-> \h6C, shape |-> <<"Q4", "Q4">>],
    GETIMAGE         |-> [code |-> \h64, shape |-> <<"Q4", "Q4", "Q4", "Q4", "Q4">>],
    HSF              |-> [code |-> \h62, shape |-> <<"V4">>],
    PCLKFREQ         |-> [code |-> \h6A, shape |-> <<"V4", "V4", "Q4">>] ]

\* the fields of a call: every V2 argument is v, every V4 argument is v in
\* both halves, the q-th output pointer is NULL iff q is in nulls
RECURSIVE ProtoFields(_, _, _)
ProtoFields(shape, q, a) ==
  IF shape = <<>> THEN <<>>
  ELSE LET t == Head(shape)
           f == CASE t = "V2" -> <<"V2", a.v>>
                  [] t = "V4" -> <<"V4", W32(a.v, a.v)>>
                  [] t = "Q4" -> <<"Q4", q \notin a.nulls>>
                  [] t = "SS" -> <<"SS", a.message, a.maxlen, a.int_bits>>
                  [] t = "MM" -> <<"MM", a.data>>
       IN  <<f>> \o ProtoFields(Tail(shape), IF t = "Q4" THEN q + 1 ELSE q, a)

-----------------------------------------------------------------------------
(* Operations on the command ring *)

RP == Mem16(mem, REG_CMD_READ)
WP == Mem16(mem, REG_CMD_WRITE)

DoCmdInitWriteIndex ==
  /\ pc = "idle"
  /\ LET w == CmdInitWriteIndex(Fresh)
     IN  /\ Commit(w)
         /\ cmd_index' = w.rx
         /\ ret' = w.rx
         /\ gh' = [gh EXCEPT !.synced = TRUE, !.syncval = w.rx, !.appended = 0]
  /\ op' = "CmdInitWriteIndex"
  /\ loc' = NoLoc
  /\ UNCHANGED <<pc, dl_index, err, ix, profile>>

DoCmdGetFreeCmdSpace ==
  /\ pc = "idle"
  /\ LET w == CmdGetFreeCmdSpace(Fresh, cmd_index)
     IN  /\ Commit(w)
         /\ ret' = w.rx
  /\ op' = "CmdGetFreeCmdSpace"
  /\ loc' = NoLoc
  /\ UNCHANGED <<pc, cmd_index, dl_index, err, ix, gh, profile>>

\* Cmd(command), with at most `max` commands appended in a run
DoCmd(command, max) ==
  /\ pc = "idle"
  /\ gh.total < max
  /\ Commit(Cmd(Fresh, cmd_index, command))
  /\ cmd_index' = CmdNext(cmd_index)
  /\ ret' = CmdNext(cmd_index)
  /\ gh' = [gh EXCEPT !.appended = @ + 4, !.total = @ + 1]
  /\ op' = "Cmd"
  /\ loc' = [command |-> command]
  /\ UNCHANGED <<pc, dl_index, err, ix, profile>>

\* cmd_NAME(...) for a NAME of CmdTable
DoCmdRecord(name, max) ==
  /\ pc = "idle"
  /\ gh.total < max
  /\ LET r == CmdRecord(Fresh, cmd_index, CmdTable[name].command, CmdTable[name].fields)
     IN  /\ Commit(r.w)
         /\ cmd_index' = r.index
         /\ ret' = r.index
         /\ gh' = [gh EXCEPT !.appended = @ + r.bytes, !.total = @ + 1]
         /\ loc' = [name |-> name, outs |-> r.outs]
  /\ op' = "cmd_"
  /\ UNCHANGED <<pc, dl_index, err, ix, profile>>

DoCmdIsBusy(pError) ==
  /\ pc = "idle"
  /\ LET w == CmdIsBusy(Fresh)
         r == CmdBusyResult(w.rx, cmd_index)
     IN  /\ Commit(w)
         /\ err' = IF pError THEN B2N(r.error) ELSE err
         /\ ret' = B2N(r.busy)
  /\ op' = "CmdIsBusy"
  /\ loc' = [pError |-> pError]
  /\ UNCHANGED <<pc, cmd_index, dl_index, ix, gh, profile>>

\* entry of CmdWaitComplete(pError)
DoCmdWaitComplete(pError) ==
  /\ pc = "idle"
  /\ pc' = "CmdWaitComplete"
  /\ op' = "CmdWaitComplete"
  /\ loc' = [pError |-> pError, spun |-> FALSE]
  /\ log' = <<>> /\ calls' = <<>>
  /\ UNCHANGED <<ret, cs, txn, mem, script, cmd_index, dl_index, err, ix, gh, profile>>

\* one evaluation of the loop condition of CmdWaitComplete: a CmdIsBusy call
WaitPoll ==
  /\ pc = "CmdWaitComplete"
  /\ LET w == CmdIsBusy(Fresh)
         r == CmdBusyResult(w.rx, cmd_index)
     IN  /\ Commit(w)
         /\ err' = IF loc.pError THEN B2N(r.error) ELSE err
         /\ IF r.busy
            THEN pc' = pc /\ ret' = ret /\ loc' = [loc EXCEPT !.spun = TRUE]
            ELSE pc' = "idle" /\ ret' = cmd_index /\ loc' = loc
  /\ UNCHANGED <<op, cmd_index, dl_index, ix, gh, profile>>

\* CmdExecute(waituntilcomplete, pError) up to its call of CmdWaitComplete
DoCmdExecute(waituntilcomplete, pError) ==
  /\ pc = "idle"
  /\ Commit(CmdExecuteWrite(Fresh, cmd_index))
  /\ pc' = IF waituntilcomplete THEN "CmdWaitComplete" ELSE "idle"
  /\ ret' = cmd_index
  /\ op' = "CmdExecute"
  /\ loc' = [pError |-> pError, spun |-> FALSE]
  /\ UNCHANGED <<cmd_index, dl_index, err, ix, gh, profile>>

-----------------------------------------------------------------------------
(* The co-processor *)

\* the co-processor consumes one command, or all that are left
ChipDrain ==
  /\ RP # WP /\ RP # READ_INDEX_ERROR
  /\ \E all \in BOOLEAN :
       LET left == (WP - RP) % RAM_CMD_SIZE
           next == IF all \/ left < 4 THEN WP ELSE (RP + 4) % RAM_CMD_SIZE
       IN  mem' = Put16(mem, REG_CMD_READ, next)
  /\ UNCHANGED <<pc, ret, op, loc, cs, txn, log, calls, script, cmd_index, dl_index, err, ix, gh, profile>>

\* the co-processor faults on a command
ChipFault ==
  /\ RP # WP /\ RP # READ_INDEX_ERROR
  /\ mem' = Put16(mem, REG_CMD_READ, READ_INDEX_ERROR)
  /\ UNCHANGED <<pc, ret, op, loc, cs, txn, log, calls, script, cmd_index, dl_index, err, ix, gh, profile>>

-----------------------------------------------------------------------------
(* The command ring without the co-processor running (specification SpecFree) *)

\* values of the two ring pointers when the driver is constructed
RingStarts == {0, 4092}

InitRing ==
  /\ InitCtl /\ InitBus /\ InitDrv /\ InitGh /\ InitIx
  /\ script = SteadyScript /\ profile = DefaultProfile
  /\ \E p \in RingStarts : InitMem(p, p)

\* the write index is synchronised before the first append of the run
NextFree ==
  \/ (gh.total = 0 /\ DoCmdInitWriteIndex)
  \/ DoCmd(ENC_CMD_DLSTART, MaxFreeCmds)
  \/ DoCmdGetFreeCmdSpace

SpecFree == InitRing /\ [][NextFree]_vars

\* C6: with the read pointer fixed at the value the write index was
\* synchronised to, after n appends of 4-byte words CmdGetFreeCmdSpace returns
\* (RAM_CMD_SIZE - 4) - ((4n) mod RAM_CMD_SIZE), for every n, also n > 1024;
\* the result stays in [0, RAM_CMD_SIZE - 4].
C6_FreeSpaceWraps ==
  (op = "CmdGetFreeCmdSpace" /\ pc = "idle" /\ gh.synced /\ RP = gh.syncval) =>
     /\ ret = (RAM_CMD_SIZE - 4) - (gh.appended % RAM_CMD_SIZE)
     /\ ret \in 0 .. (RAM_CMD_SIZE - 4)

\* 4100 bytes were appended to the ring of 4096
C6_Witness ==
  /\ op = "CmdGetFreeCmdSpace" /\ gh.synced /\ RP = gh.syncval
  /\ gh.appended = 4100 /\ ret = RAM_CMD_SIZE - 8

-----------------------------------------------------------------------------
(* The command ring and the co-processor (specification SpecCmd) *)

NextCmd ==
  \/ (gh.total = 0 /\ DoCmdInitWriteIndex)
  \/ DoCmd(ENC_CMD_DLSTART, MaxCmds)
  \/ \E name \in DOMAIN CmdTable : DoCmdRecord(name, MaxCmds)
  \/ \E pError \in BOOLEAN : DoCmdIsBusy(pError)
  \/ \E pError \in BOOLEAN : DoCmdWaitComplete(pError)
  \/ WaitPoll
  \/ \E waituntilcomplete \in BOOLEAN, pError \in BOOLEAN : DoCmdExecute(waituntilcomplete, pError)
  \/ ChipDrain
  \/ ChipFault

SpecCmd == InitRing /\ [][NextCmd]_vars

\* the transport calls of exactly one 16-bit read of the register at addr
OneRead16(l, c, addr) ==
  /\ Len(c) = 1 /\ c[1][1] = "read" /\ c[1][2] = addr
  /\ Len(SelectSeq(l, IsRecv)) = 2
  /\ Len(SelectSeq(l, IsSend)) = 4

\* C7: CmdIsBusy reads REG_CMD_READ exactly once; it stores (value read =
\* 0x0FFF) through a non-NULL pError whatever the write index is; it returns
\* true iff the value read is not 0x0FFF and differs from the write index; it
\* changes neither the local indices nor chip memory.
C7_IsBusy ==
  [][ \A pError \in BOOLEAN : DoCmdIsBusy(pError) =>
        /\ OneRead16(log', calls', REG_CMD_READ)
        /\ (pError => err' = B2N(RP = READ_INDEX_ERROR))
        /\ (ret' = 1 <=> (RP # READ_INDEX_ERROR /\ RP # cmd_index))
        /\ cmd_index' = cmd_index /\ dl_index' = dl_index
        /\ mem' = mem /\ script' = script ]_vars

\* a fault was reported while the write index differed from the read pointer
C7_Witness ==
  /\ op = "CmdIsBusy" /\ pc = "idle" /\ err = 1 /\ ret = 0
  /\ RP = READ_INDEX_ERROR /\ cmd_index # WP

\* C8: CmdWaitComplete returns only after a poll in which REG_CMD_READ
\* equalled the local write index or 0x0FFF; such a poll ends the wait at once;
\* on return a non-NULL pError holds (final poll = 0x0FFF); the write index
\* is returned unchanged.
C8_WaitComplete ==
  [][ /\ (pc = "CmdWaitComplete" /\ pc' # "CmdWaitComplete") =>
           /\ pc' = "idle"
           /\ RP = cmd_index \/ RP = READ_INDEX_ERROR
           /\ OneRead16(log', calls', REG_CMD_READ)
           /\ (loc.pError => err' = B2N(RP = READ_INDEX_ERROR))
           /\ ret' = cmd_index /\ cmd_index' = cmd_index
      /\ (WaitPoll /\ (RP = cmd_index \/ RP = READ_INDEX_ERROR)) => pc' = "idle" ]_vars

\* a wait that spun and was ended by a fault
C8_Witness ==
  /\ op = "CmdWaitComplete" /\ pc = "idle" /\ loc.spun /\ err = 1
  /\ RP = READ_INDEX_ERROR /\ RP # cmd_index

\* C9: CmdExecute writes the local write index to REG_CMD_WRITE before any
\* waiting, and no other operation changes REG_CMD_WRITE: Cmd and the cmd_
\* functions leave it unchanged.
C9_ExecutePublishes ==
  [][ /\ (\E wt \in BOOLEAN, pError \in BOOLEAN : DoCmdExecute(wt, pError)) =>
           /\ Mem16(mem', REG_CMD_WRITE) = cmd_index
           /\ SelectSeq(log', IsRecv) = <<>>
           /\ Len(calls') = 1 /\ calls'[1][1] = "write" /\ calls'[1][2] = REG_CMD_WRITE
      /\ (Mem16(mem', REG_CMD_WRITE) # WP) => (pc = "idle" /\ op' = "CmdExecute")
      /\ ((\E name \in DOMAIN CmdTable : DoCmdRecord(name, MaxCmds)) \/ DoCmd(ENC_CMD_DLSTART, MaxCmds))
            => Mem16(mem', REG_CMD_WRITE) = WP ]_vars

\* commands were appended and then published
C9_Witness ==
  /\ op = "CmdExecute" /\ gh.appended >= 4 /\ WP = cmd_index /\ RP # WP

\* C11: whenever the co-processor has nothing to do (REG_CMD_READ equals
\* REG_CMD_WRITE), a poll of CmdWaitComplete is a single read of REG_CMD_READ
\* and ends the wait.  CmdIsBusy compares the read pointer with the local
\* write index, not with REG_CMD_WRITE, so commands that were appended but not
\* published keep the wait going.
C11_WaitReturnsWhenIdle ==
  [][ (WaitPoll /\ RP = WP) =>
        /\ OneRead16(log', calls', REG_CMD_READ)
        /\ pc' = "idle" ]_vars

-----------------------------------------------------------------------------
(* Executing the ring with a co-processor that keeps going (specification SpecExec) *)

NextExec ==
  \/ (gh.total = 0 /\ DoCmdInitWriteIndex)
  \/ DoCmd(ENC_CMD_DLSTART, MaxCmds)
  \/ \E name \in DOMAIN CmdTable : DoCmdRecord(name, MaxCmds)
  \/ \E waituntilcomplete \in BOOLEAN, pError \in BOOLEAN : DoCmdExecute(waituntilcomplete, pError)
  \/ WaitPoll
  \/ ChipDrain
  \/ ChipFault

\* the caller's loop keeps polling; the co-processor keeps consuming commands
\* while it has any and has not faulted
SpecExec == InitRing /\ [][NextExec]_vars /\ WF_vars(WaitPoll) /\ WF_vars(ChipDrain)

\* C10: with a co-processor that keeps draining (or faults), CmdExecute(true)
\* eventually returns; as long as the read pointer is neither the local write
\* index nor 0x0FFF the call does not return.
C10_ExecuteWaitReturns ==
  /\ (pc = "CmdWaitComplete" /\ op = "CmdExecute") ~> (pc = "idle")
  /\ [][ (pc = "CmdWaitComplete" /\ RP # cmd_index /\ RP # READ_INDEX_ERROR)
           => pc' = "CmdWaitComplete" ]_vars

\* CmdExecute(true) returned after it had to wait for the co-processor
C10_Witness ==
  /\ op = "CmdExecute" /\ pc = "idle" /\ loc.spun /\ RP = cmd_index /\ gh.appended >= 4

-----------------------------------------------------------------------------
(* Steve: initialisation. Begin is modelled in the steps between which it   *)
(* can return; the loops of its two RegWait8 calls advance one pass at a     *)
(* time.                                                                     *)

\* Steve::Pause
Pause(w, pause) ==
  LET w1 == HalPause(w, pause)
  IN  IF pause THEN Select(w1, FALSE) ELSE w1

\* End that removes the power before it pauses the transport
EndPowerOffFirst(w) == Delay(Pause(Delay(Power(w, FALSE), 20), TRUE), 6)

\* Steve::End
End(w) == Delay(Power(Delay(Pause(w, TRUE), 20), FALSE), 6)

\* maxtries of the two RegWait8 calls of Begin
BEGIN_MAXTRIES == 250

\* Begin from its entry to the first RegWait8, with the chip activated before
\* the clock is selected
BeginWakeActiveFirst(w, p) ==
  LET w1 == HalInit(Select(Delay(Power(End(w), TRUE), 21), TRUE), TRUE)
      w2 == HostCommand(w1, HOSTCMD_ACTIVE, 0)
      w3 == HostCommand(w2, IF p.clkext THEN HOSTCMD_CLKEXT ELSE HOSTCMD_CLKINT, 0)
      w4 == HostCommand(w3, HOSTCMD_CLKSEL, p.clksel)
  IN  HalInit(Delay(w4, 40), FALSE)

\* Begin from its entry to the first RegWait8
BeginWake(w, p) ==
  LET w1 == HalInit(Select(Delay(Power(End(w), TRUE), 21), TRUE), TRUE)
      w2 == HostCommand(w1, IF p.clkext THEN HOSTCMD_CLKEXT ELSE HOSTCMD_CLKINT, 0)
      w3 == HostCommand(w2, HOSTCMD_CLKSEL, p.clksel)
      w4 == HostCommand(w3, HOSTCMD_ACTIVE, 0)
  IN  HalInit(Delay(w4, 40), FALSE)

\* a chip-ID test that accepts every chip
BeginChipIdAlwaysOk(chipid, chip_id) == TRUE

\* a chip-ID test that compares the low 16 bits only
BeginChipIdOkLow16(chipid, chip_id) == (chipid.lo = chip_id.lo)

\* the chip-ID test of Begin: _profile._chipid != (CHIPID)chip_id fails
BeginChipIdOk(chipid, chip_id) == (chipid = chip_id)

\* a Begin that reads the chip ID whatever the profile asks for
BeginChecksChipIdAlways(chipid) == TRUE

\* Begin reads the chip ID unless the profile holds CHIPID_ANY
BeginChecksChipId(chipid) == (chipid # CHIPID_ANY)

\* Begin: store the frequency if requested, then CmdInitWriteIndex (the new
\* _cmd_index is left in rx)
BeginStart(w, p) ==
  CmdInitWriteIndex(IF p.frequency # ToW32(0) THEN RegWrite32(w, REG_FREQUENCY, p.frequency) ELSE w)

\* an update of REG_GPIOX that always enables the panel as well
GpioxUpdateEnables(w, bits, set) ==
  The({ RegWrite16(w1, REG_GPIOX,
                   BitOr(IF set THEN BitOr(w1.rx, bits) ELSE BitAnd(w1.rx, 65535 - bits), \h8000)) :
          w1 \in { RegRead16(w, REG_GPIOX) } })

\* RegWrite16(REG_GPIOX, RegRead16(REG_GPIOX) | bits) or ... & ~bits
GpioxUpdate(w, bits, set) ==
  The({ RegWrite16(w1, REG_GPIOX,
                   IF set THEN BitOr(w1.rx, bits) ELSE BitAnd(w1.rx, 65535 - bits)) :
          w1 \in { RegRead16(w, REG_GPIOX) } })

\* the loop over _pindrivetable; `table` holds the bytes before the 0xFF
RECURSIVE PinDrive(_, _)
PinDrive(w, table) ==
  IF table = <<>> THEN w
  ELSE PinDrive(HostCommand(w, HOSTCMD_PINDRIVE, Head(table)), Tail(table))

\* Begin from REG_PCLK = 0 to the call of TouchInit; the worlds w1 .. w9 are
\* evaluated one after the other, in program order
BeginPanel(w, p) ==
  LET w1  == RegWrite8(RegWrite8(w, REG_PCLK, 0), REG_PWM_DUTY, 0)
      w2  == RegWrite16(RegWrite16(RegWrite16(w1, REG_HSIZE, p.hsize), REG_HCYCLE, p.hcycle), REG_HOFFSET, p.hoffset)
      w3  == RegWrite16(RegWrite16(w2, REG_HSYNC0, p.hsync0), REG_HSYNC1, p.hsync1)
      w4  == RegWrite16(RegWrite16(RegWrite16(w3, REG_VSIZE, p.vsize), REG_VCYCLE, p.vcycle), REG_VOFFSET, p.voffset)
      w5  == RegWrite16(RegWrite16(w4, REG_VSYNC0, p.vsync0), REG_VSYNC1, p.vsync1)
      w6  == RegWrite8(RegWrite8(w5, REG_SWIZZLE, p.swizzle), REG_PCLK_POL, p.pclkpol)
      w7  == GpioxUpdate(w6, \h1000, p.lcd10ma)
      w8  == IF p.haspindrive THEN PinDrive(w7, p.pindrivetable) ELSE w7
      w9  == RegWrite8(RegWrite8(w8, REG_CSPREAD, B2N(p.cspread)), REG_DITHER, B2N(p.dither))
  IN  The({ IF p.outbits # 0 THEN RegWrite16(s[9], REG_OUTBITS, p.outbits) ELSE s[9] :
              s \in { <<w1, w2, w3, w4, w5, w6, w7, w8, w9>> } })

\* Steve::TouchInit of the base class
TouchInit(w) == RegWrite16(RegWrite8(w, REG_TOUCH_MODE, 0), REG_TOUCH_RZTHRESH, 0)

\* Begin from _dl_index = 0 to its end, with the pixel clock started before
\* the display list is written
BeginFinishPclkFirst(w, p) ==
  LET d0 == IndexNew(RAM_DL_SIZE, 0)
      d1 == DLNext(d0)
      d2 == DLNext(d1)
      w0 == RegWrite8(w, REG_PCLK, p.pclk)
      w1 == DLAdd(DLAdd(DLAdd(w0, d0, ENC_CLEAR_COLOR(0)), d1, ENC_CLEAR(1, 1, 1)), d2, ENC_DISPLAY)
      w2 == GpioxUpdate(RegWrite32(w1, REG_DLSWAP, ToW32(DLSWAP_FRAME)), \h8000, TRUE)
      w3 == RegWrite8(RegWrite16(w2, REG_PWM_HZ, 300), REG_PWM_DUTY, 32)
  IN  [w |-> w3, dl_index |-> DLNext(d2)]

\* Begin from _dl_index = 0 to its end, with the first display list handed
\* to the co-processor
BeginFinishViaCmd(w, p) ==
  LET w1 == RegWrite32(RegWrite32(RegWrite32(w, RAM_CMD, ENC_CLEAR_COLOR(0)),
                                  RAM_CMD + 4, ENC_CLEAR(1, 1, 1)), RAM_CMD + 8, ENC_DISPLAY)
      w2 == GpioxUpdate(RegWrite32(w1, REG_DLSWAP, ToW32(DLSWAP_FRAME)), \h8000, TRUE)
      w3 == RegWrite8(RegWrite16(RegWrite8(w2, REG_PCLK, p.pclk), REG_PWM_HZ, 300), REG_PWM_DUTY, 32)
  IN  [w |-> w3, dl_index |-> 12]

\* Begin from _dl_index = 0 to its end
BeginFinish(w, p) ==
  LET d0 == IndexNew(RAM_DL_SIZE, 0)
      d1 == DLNext(d0)
      d2 == DLNext(d1)
      w1 == DLAdd(DLAdd(DLAdd(w, d0, ENC_CLEAR_COLOR(0)), d1, ENC_CLEAR(1, 1, 1)), d2, ENC_DISPLAY)
      w2 == GpioxUpdate(RegWrite32(w1, REG_DLSWAP, ToW32(DLSWAP_FRAME)), \h8000, TRUE)
      w3 == RegWrite8(RegWrite16(RegWrite8(w2, REG_PCLK, p.pclk), REG_PWM_HZ, 300), REG_PWM_DUTY, 32)
  IN  [w |-> w3, dl_index |-> DLNext(d2)]

BeginSteps ==
  <<"Begin_REG_ID", "Begin_REG_CPURESET", "Begin_CHIP_ID", "Begin_Start",
    "Begin_EarlyInit", "Begin_Panel", "Begin_TouchInit", "Begin_Finish">>

InBegin(p) == \E i \in DOMAIN BeginSteps : BeginSteps[i] = p
BeginStepNo(p) == CHOOSE i \in DOMAIN BeginSteps : BeginSteps[i] = p

\* `return false` from the step Begin is in
BeginFail ==
  /\ pc' = "idle" /\ ret' = 0
  /\ loc' = [loc EXCEPT !.failed = pc]

\* continue with the next step
BeginGo(next) ==
  /\ pc' = next /\ ret' = ret
  /\ loc' = [loc EXCEPT !.result = BEGIN_MAXTRIES]

\* Begin(), to its first RegWait8
DoBegin ==
  /\ pc = "idle"
  /\ gh.begins < MaxBegins
  /\ Commit(BeginWake(Fresh, profile))
  /\ pc' = "Begin_REG_ID"
  /\ op' = "Begin"
  /\ loc' = [result |-> BEGIN_MAXTRIES, failed |-> "", hook |-> TRUE]
  /\ gh' = [gh EXCEPT !.begins = @ + 1]
  /\ UNCHANGED <<ret, cmd_index, dl_index, err, ix, profile>>

\* one pass of the loop of RegWait8(address22, value, 250, 1) called by Begin
\* at step `step`, and the test of its result when it returns
BeginWait(step, address22, value, next) ==
  /\ pc = step
  /\ LET t == RegWait8Try(World, address22, value, loc.result, 1)
     IN  /\ Commit(t.w)
         /\ IF ~t.match /\ t.result # 0
            THEN pc' = pc /\ ret' = ret /\ loc' = [loc EXCEPT !.result = t.result]
            ELSE IF t.result = 0 THEN BeginFail ELSE BeginGo(next)
  /\ UNCHANGED <<op, cmd_index, dl_index, err, ix, gh, profile>>

BeginWaitId == BeginWait("Begin_REG_ID", REG_ID, \h7C, "Begin_REG_CPURESET")

BeginWaitCpuReset == BeginWait("Begin_REG_CPURESET", REG_CPURESET, 0, "Begin_CHIP_ID")

\* the chip-ID check of Begin
BeginChipId ==
  /\ pc = "Begin_CHIP_ID"
  /\ IF BeginChecksChipId(profile.chipid)
     THEN LET w == RegRead32(World, REG_CHIP_ID)
          IN  /\ Commit(w)
              /\ IF BeginChipIdOk(profile.chipid, w.rx) THEN BeginGo("Begin_Start") ELSE BeginFail
     ELSE /\ BeginGo("Begin_Start")
          /\ UNCHANGED <<cs, txn, log, calls, mem, script>>
  /\ UNCHANGED <<op, cmd_index, dl_index, err, ix, gh, profile>>

DoBeginStart ==
  /\ pc = "Begin_Start"
  /\ LET w == BeginStart(World, profile)
     IN  /\ Commit(w)
         /\ cmd_index' = w.rx
  /\ BeginGo("Begin_EarlyInit")
  /\ UNCHANGED <<op, dl_index, err, ix, gh, profile>>

\* EarlyInit() is virtual: the base class returns true, a subclass may
\* return false
BeginEarlyInit ==
  /\ pc = "Begin_EarlyInit"
  /\ \E result \in BOOLEAN :
       /\ pc' = IF result THEN "Begin_Panel" ELSE "idle"
       /\ ret' = IF result THEN ret ELSE 0
       /\ loc' = [loc EXCEPT !.hook = result, !.failed = IF result THEN @ ELSE pc]
  /\ UNCHANGED <<op, cs, txn, log, calls, mem, script, cmd_index, dl_index, err, ix, gh, profile>>

DoBeginPanel ==
  /\ pc = "Begin_Panel"
  /\ Commit(BeginPanel(World, profile))
  /\ BeginGo("Begin_TouchInit")
  /\ UNCHANGED <<op, cmd_index, dl_index, err, ix, gh, profile>>

\* TouchInit() is virtual: the base class writes two registers and returns
\* true, a subclass may return false
BeginTouchInit ==
  /\ pc = "Begin_TouchInit"
  /\ \E result \in BOOLEAN :
       /\ IF result THEN Commit(TouchInit(World))
          ELSE UNCHANGED <<cs, txn, log, calls, mem, script>>
       /\ pc' = IF result THEN "Begin_Finish" ELSE "idle"
       /\ ret' = IF result THEN ret ELSE 0
       /\ loc' = [loc EXCEPT !.hook = result, !.failed = IF result THEN @ ELSE pc]
  /\ UNCHANGED <<op, cmd_index, dl_index, err, ix, gh, profile>>

DoBeginFinish ==
  /\ pc = "Begin_Finish"
  /\ LET r == BeginFinish(World, profile)
     IN  /\ Commit(r.w)
         /\ dl_index' = r.dl_index
  /\ pc' = "idle" /\ ret' = 1 /\ loc' = loc
  /\ UNCHANGED <<op, cmd_index, err, ix, gh, profile>>

-----------------------------------------------------------------------------
(* Begin with chips that become ready early, late or never (specification   *)
(* SpecBegin)                                                                *)

\* what successive reads of REG_ID return: 0x7C at once, at the third read,
\* at the last read Begin makes, never
IdScripts ==
  { << <<\h7C, 1>> >>, << <<0, 2>>, <<\h7C, 1>> >>,
    << <<0, BEGIN_MAXTRIES - 1>>, <<\h7C, 1>> >>, << <<0, 1>> >> }

\* what successive reads of REG_CPURESET return
CpuResetScripts == { << <<0, 1>> >>, << <<1, 1>>, <<0, 1>> >>, << <<1, 1>> >> }

BeginProfiles ==
  { DefaultProfile,
    [DefaultProfile EXCEPT !.clkext = TRUE, !.clksel = \h46, !.chipid = CHIPID_FT813,
                           !.frequency = ToW32(60000000), !.lcd10ma = TRUE, !.cspread = TRUE,
                           !.dither = TRUE, !.outbits = \h1B6,
                           !.haspindrive = TRUE, !.pindrivetable = <<\h01, \h36>>],
    [DefaultProfile EXCEPT !.chipid = CHIPID_BT815] }

\* the chip on the bus is an FT813
InitChipId == (REG_CHIP_ID :> \h08) @@ ((REG_CHIP_ID + 1) :> \h13) @@ ((REG_CHIP_ID + 2) :> \h01) @@ ((REG_CHIP_ID + 3) :> 0)

\* a chip whose ID register holds 0x80011308: the low half is that of an FT813
InitChipIdHigh == (REG_CHIP_ID :> \h08) @@ ((REG_CHIP_ID + 1) :> \h13) @@ ((REG_CHIP_ID + 2) :> \h01) @@ ((REG_CHIP_ID + 3) :> \h80)

InitBegin ==
  /\ InitCtl /\ InitBus /\ InitDrv /\ InitGh /\ InitIx
  /\ \E c \in {InitChipId, InitChipIdHigh} :
       mem = c @@ Put16(Put16(<<>>, REG_CMD_READ, 0), REG_CMD_WRITE, 0)
  /\ profile \in BeginProfiles
  /\ \E s1 \in IdScripts, s2 \in CpuResetScripts :
       script = (REG_ID :> s1) @@ (REG_CPURESET :> s2)

NextBegin ==
  \/ DoBegin
  \/ BeginWaitId
  \/ BeginWaitCpuReset
  \/ BeginChipId
  \/ DoBeginStart
  \/ BeginEarlyInit
  \/ DoBeginPanel
  \/ BeginTouchInit
  \/ DoBeginFinish

SpecBegin == InitBegin /\ [][NextBegin]_vars

IsIdRead(c) == c[1] = "read" /\ c[2] = REG_ID
IdReads == SelectSeq(calls, IsIdRead)

\* the byte returned to the 8-bit read requested as call c: two Select calls,
\* three header bytes and the dummy byte come before it
ReadValue8(c) == log[c[3] + 6][3]

BeginReturned == op = "Begin" /\ pc = "idle"

\* C2: if every read of REG_ID during Begin returned something other than
\* 0x7C, Begin returns false after exactly 250 reads of REG_ID, each followed
\* by Delay(1), without reading REG_CPURESET or REG_CHIP_ID and without any
\* memory-write transaction.
C2_BeginIdTimeout ==
  (BeginReturned /\ \A i \in 1 .. Len(IdReads) : ReadValue8(IdReads[i]) # \h7C) =>
     /\ ret = 0
     /\ Len(IdReads) = 250
     /\ \A i \in 1 .. Len(IdReads) :
          /\ Len(log) >= IdReads[i][3] + 7
          /\ log[IdReads[i][3] + 6][1] = "Receive8"
          /\ log[IdReads[i][3] + 7] = Ev("Delay", 1, 0)
     /\ \A j \in 1 .. Len(calls) :
          /\ ~(calls[j][1] = "read" /\ calls[j][2] \in {REG_CPURESET, REG_CHIP_ID})
          /\ calls[j][1] # "write"

\* Begin gave up on REG_ID after polling a chip that never answered 0x7C
C2_Witness ==
  /\ BeginReturned /\ ret = 0 /\ loc.failed = "Begin_REG_ID"
  /\ Len(IdReads) = 250
  /\ \A i \in 1 .. Len(IdReads) : ReadValue8(IdReads[i]) # \h7C

\* the 32-bit value made of the last four bytes received
LastRead32(l) ==
  W32(l[Len(l) - 1][3] + 256 * l[Len(l)][3], l[Len(l) - 3][3] + 256 * l[Len(l) - 2][3])

\* the step taken is the last pass of a RegWait8 loop of Begin and its read
\* did not match (the pass ended with the delay)
BeginTimeout(step) ==
  /\ pc = step /\ loc.result = 1
  /\ log' # log /\ log'[Len(log')] = Ev("Delay", 1, 0)

\* the step taken added exactly one transaction, a read of address22 with
\* `n` transport calls
OnlyRead(address22, n) ==
  /\ Len(calls') = Len(calls) + 1
  /\ calls'[Len(calls')][1] = "read" /\ calls'[Len(calls')][2] = address22
  /\ SubSeq(calls', 1, Len(calls)) = calls
  /\ Len(log') = Len(log) + n
  /\ SubSeq(log', 1, Len(log)) = log

\* C3: Begin is terminal on first failure.  Its steps are taken in order and
\* none is taken again; Begin ends only by returning false from a step or at
\* its end; a REG_ID timeout, a REG_CPURESET timeout, a chip-ID mismatch, an
\* EarlyInit or a TouchInit that returns false makes Begin return false with
\* no transport call beyond those of the failing step; after that nothing
\* more is sent unless Begin is called again.
C3_BeginTerminal ==
  [][ /\ (InBegin(pc) /\ InBegin(pc')) =>
            \/ BeginStepNo(pc') > BeginStepNo(pc)
            \/ /\ pc' = pc /\ pc \in {"Begin_REG_ID", "Begin_REG_CPURESET"}
               /\ loc'.result < loc.result
      /\ (InBegin(pc) /\ ~InBegin(pc')) =>
            /\ pc' = "idle"
            /\ (ret' = 0 \/ (pc = "Begin_Finish" /\ ret' = 1))
      /\ BeginTimeout("Begin_REG_ID") =>
            (pc' = "idle" /\ ret' = 0 /\ OnlyRead(REG_ID, 8))
      /\ BeginTimeout("Begin_REG_CPURESET") =>
            (pc' = "idle" /\ ret' = 0 /\ OnlyRead(REG_CPURESET, 8))
      /\ (pc = "Begin_CHIP_ID" /\ profile.chipid # CHIPID_ANY /\ LastRead32(log') # profile.chipid) =>
            (pc' = "idle" /\ ret' = 0 /\ OnlyRead(REG_CHIP_ID, 10))
      /\ (pc \in {"Begin_EarlyInit", "Begin_TouchInit"} /\ ~loc'.hook) =>
            (pc' = "idle" /\ ret' = 0 /\ log' = log /\ calls' = calls)
      /\ (BeginReturned /\ ret = 0) =>
            (log' = log \/ (pc' = "Begin_REG_ID" /\ gh'.begins = gh.begins + 1)) ]_vars

\* Begin passed every step up to TouchInit, which returned false
C3_Witness ==
  /\ BeginReturned /\ ret = 0 /\ loc.failed = "Begin_TouchInit"
  /\ profile.chipid = CHIPID_FT813

-----------------------------------------------------------------------------
(* Single transactions requested by a caller (specification SpecBus) *)

BusAddresses == {0, REG_GPIOX, RAM_DL + 8}
BusValues    == {0, \hA55A}
BusBuffers   == {<<>>, <<\h11>>, <<\h11, \h22, \h33>>}

\* the end of a caller's operation that made one transaction of `kind` with
\* the arguments a and b and `nbytes` bytes of data
BusDone(name, kind, a, b, nbytes) ==
  /\ pc = "idle"
  /\ gh.ops < MaxBusOps
  /\ op' = name
  /\ loc' = [kind |-> kind, a |-> a, b |-> b, nbytes |-> nbytes]
  /\ gh' = [gh EXCEPT !.ops = @ + 1]
  /\ UNCHANGED <<pc, err, ix, profile>>

DoHostCommand(hostcmd, parameter) ==
  /\ BusDone("HostCommand", "host", hostcmd, parameter, 0)
  /\ Commit(HostCommand(Fresh, hostcmd, parameter))
  /\ UNCHANGED <<ret, cmd_index, dl_index>>

DoRegRead(bits, address22) ==
  /\ BusDone("RegRead", "read", address22, 0, bits \div 8)
  /\ LET w == CASE bits = 8  -> RegRead8(Fresh, address22)
                [] bits = 16 -> RegRead16(Fresh, address22)
                [] bits = 32 -> RegRead32(Fresh, address22)
     IN  Commit(w) /\ ret' = w.rx
  /\ UNCHANGED <<cmd_index, dl_index>>

DoRegWrite(bits, address22, value) ==
  /\ BusDone("RegWrite", "write", address22, 0, bits \div 8)
  /\ Commit(CASE bits = 8  -> RegWrite8(Fresh, address22, value)
              [] bits = 16 -> RegWrite16(Fresh, address22, value)
              [] bits = 32 -> RegWrite32(Fresh, address22, W32(value, value)))
  /\ UNCHANGED <<ret, cmd_index, dl_index>>

DoRegReadBuffer(address22, length) ==
  /\ BusDone("RegReadBuffer", "read", address22, 0, length)
  /\ LET r == RegReadBuffer(Fresh, address22, length)
     IN  Commit(r.w) /\ ret' = r.next
  /\ UNCHANGED <<cmd_index, dl_index>>

DoRegWriteBuffer(address22, source) ==
  /\ BusDone("RegWriteBuffer", "write", address22, 0, Len(source))
  /\ LET r == RegWriteBuffer(Fresh, address22, source)
     IN  Commit(r.w) /\ ret' = r.next
  /\ UNCHANGED <<cmd_index, dl_index>>

\* Cmd(command) as a single transaction
DoBusCmd(command) ==
  /\ BusDone("Cmd", "write", RAM_CMD + cmd_index, 0, 4)
  /\ Commit(Cmd(Fresh, cmd_index, command))
  /\ cmd_index' = CmdNext(cmd_index)
  /\ ret' = CmdNext(cmd_index)
  /\ UNCHANGED dl_index

DoDLAdd(value) ==
  /\ BusDone("DLAdd", "write", RAM_DL + dl_index, 0, 4)
  /\ Commit(DLAdd(Fresh, dl_index, value))
  /\ dl_index' = DLNext(dl_index)
  /\ ret' = DLNext(dl_index)
  /\ UNCHANGED cmd_index

InitBusSpec ==
  /\ InitCtl /\ InitBus /\ InitIx /\ InitGh /\ InitMem(0, 0)
  /\ script = SteadyScript /\ profile = DefaultProfile
  /\ err = -1
  /\ cmd_index \in {IndexNew(RAM_CMD_SIZE, 0), IndexNew(RAM_CMD_SIZE, 4092)}
  /\ dl_index \in {IndexNew(RAM_DL_SIZE, 0), IndexNew(RAM_DL_SIZE, 8188)}

NextBus ==
  \/ \E hostcmd \in {HOSTCMD_ACTIVE, HOSTCMD_CLKSEL, HOSTCMD_PINDRIVE}, parameter \in {0, \h46} :
       DoHostCommand(hostcmd, parameter)
  \/ \E bits \in {8, 16, 32}, address22 \in BusAddresses : DoRegRead(bits, address22)
  \/ \E bits \in {8, 16, 32}, address22 \in BusAddresses, value \in BusValues :
       DoRegWrite(bits, address22, value)
  \/ \E address22 \in BusAddresses, length \in {0, 1, 3} : DoRegReadBuffer(address22, length)
  \/ \E address22 \in BusAddresses, source \in BusBuffers : DoRegWriteBuffer(address22, source)
  \/ DoBusCmd(ENC_CMD_DLSTART)
  \/ DoDLAdd(ENC_CLEAR(1, 1, 1))

SpecBus == InitBusSpec /\ [][NextBus]_vars

IsOpen(e, enable) == e[1] = "Select" /\ e[2] = B2N(enable)

\* the header word the transaction of the current operation must carry
BusHeader ==
  CASE loc.kind = "host"  -> BitOr(loc.a, loc.b * 256)
    [] loc.kind = "read"  -> loc.a
    [] loc.kind = "write" -> BitOr(\h800000, loc.a)

\* C4: every transaction (HostCommand, RegRead*, RegWrite*, the buffer
\* operations, Cmd, DLAdd) starts with Select(false), then Select(true), then
\* exactly three header bytes, most significant first, before any data byte;
\* the header word is addr for a read, 0x800000|addr for a write and
\* opcode|(parameter<<8) for a host command; a read then sends exactly one
\* dummy byte before the first data byte is received, a write sends none.
C4_TransactionFraming ==
  (gh.ops > 0 /\ pc = "idle") =>
     /\ Len(calls) = 1 /\ calls[1][1] = loc.kind /\ calls[1][3] = 1
     /\ Len(log) >= 5
     /\ IsOpen(log[1], FALSE) /\ IsOpen(log[2], TRUE)
     /\ log[3] = Ev("Send8", (BusHeader \div 65536) % 256, 0)
     /\ log[4] = Ev("Send8", (BusHeader \div 256) % 256, 0)
     /\ log[5] = Ev("Send8", BusHeader % 256, 0)
     /\ CASE loc.kind = "host"  -> Len(log) = 5
          [] loc.kind = "read"  ->
               /\ Len(log) = 6 + loc.nbytes
               /\ log[6] = Ev("Send8", 0, 0)
               /\ \A i \in 7 .. Len(log) : IsRecv(log[i])
          [] loc.kind = "write" ->
               /\ Len(log) = 5 + loc.nbytes
               /\ \A i \in 6 .. Len(log) : IsSend(log[i])

\* a block read that followed a transaction left open by the previous operation
C4_Witness ==
  /\ op = "RegReadBuffer" /\ pc = "idle" /\ gh.ops = 2 /\ loc.nbytes = 3
  /\ log[1] = Ev("Select", 0, 1) /\ Len(log) = 9


-----------------------------------------------------------------------------
(* SteveHAL::SendString on its own (specification SpecString).  The log     *)
(* records every byte handed to Transfer.                                    *)

MaxStringLen == 5   \* longest message passed to SendString

\* the widths of int of the supported builds: AVR Arduino; ARM Arduino and Windows
IntWidths == {16, 32}

RECURSIVE Letters(_)
Letters(n) == IF n = 0 THEN <<>> ELSE Append(Letters(n - 1), 64 + n)

Messages ==
  {[null |-> TRUE, chars |-> <<>>]} \cup {[null |-> FALSE, chars |-> Letters(n)] : n \in 0 .. MaxStringLen}

MaxLens == {0, 1, 2, 3, MaxStringLen, MaxStringLen + 1, MaxStringLen + 2, 65535}

DoSendString(message, maxlen, int_bits) ==
  /\ pc = "idle"
  /\ LET r == SendString(Fresh, message, maxlen, int_bits)
     IN  /\ Commit(r.w)
         /\ ret' = r.result
  /\ op' = "SendString"
  /\ loc' = [message |-> message, maxlen |-> maxlen, int_bits |-> int_bits]
  /\ UNCHANGED <<pc, cmd_index, dl_index, err, ix, gh, profile>>

InitString ==
  /\ InitCtl /\ InitBus /\ InitDrv /\ InitGh /\ InitIx /\ InitMem(0, 0)
  /\ script = SteadyScript /\ profile = DefaultProfile

NextString ==
  \E message \in Messages, maxlen \in MaxLens, int_bits \in IntWidths :
    DoSendString(message, maxlen, int_bits)

SpecString == InitString /\ [][NextString]_vars

Min(a, b) == IF a < b THEN a ELSE b

\* the bytes transmitted are the first n characters of the message and a nul,
\* nothing else went over the bus, and the byte count is returned
SentString(n) ==
  LET chars == StringChars(loc.message)
  IN  /\ Len(log) = n + 1
      /\ \A i \in 1 .. n : log[i] = Ev("Send8", chars[i], 0)
      /\ log[n + 1] = Ev("Send8", 0, 0)
      /\ ret = n + 1

\* C14: SendString(message, N) with N >= 1 and a message of length L transmits
\* exactly min(L, N-1) + 1 bytes, the first min(L, N-1) characters and one zero
\* byte, and returns that count; a NULL message is sent as the empty string.
C14_SendStringTruncates ==
  (op = "SendString" /\ pc = "idle" /\ loc.maxlen >= 1) =>
     SentString(Min(Len(StringChars(loc.message)), loc.maxlen - 1))

\* a message of 5 characters cut to 2 characters and the nul
C14_Witness ==
  /\ op = "SendString" /\ loc.maxlen = 3 /\ Len(StringChars(loc.message)) = MaxStringLen
  /\ ret = 3 /\ Len(log) = 3 /\ log[3] = Ev("Send8", 0, 0)

\* C15: SendString(message, 0) takes the maximum length for 65536: it sends
\* every character of the message and then the nul.  Where int is wider than
\* 16 bits, maxlen - 1 is -1 and no character is sent.
C15_SendStringZeroIsMax ==
  (op = "SendString" /\ pc = "idle" /\ loc.maxlen = 0) =>
     SentString(Len(StringChars(loc.message)))

-----------------------------------------------------------------------------
(* One call of a cmd_ function of the CMD macro (specification SpecRecord) *)

MaxRecords == 1     \* cmd_ calls in one run (SpecRecord)

HasTag(shape, t) == \E i \in 1 .. Len(shape) : shape[i] = t

ArgValues    == {\hFFFF, \h0180}
NullSets     == {{}, {2, 3}, 1 .. 6}
CallMessages == {[null |-> TRUE, chars |-> <<>>], [null |-> FALSE, chars |-> Letters(2)],
                 [null |-> FALSE, chars |-> Letters(3)]}
CallMaxLens  == {0, 3}
CallBuffers  == {Letters(0), Letters(1), Letters(4), Letters(5)}

\* the arguments a call of a function with this value list can be given;
\* arguments it does not have are left at one value
CallArgs(shape) ==
  [ v        : IF HasTag(shape, "V2") \/ HasTag(shape, "V4") THEN ArgValues ELSE {\hFFFF},
    nulls    : IF HasTag(shape, "Q4") THEN NullSets ELSE {{}},
    message  : IF HasTag(shape, "SS") THEN CallMessages ELSE {[null |-> TRUE, chars |-> <<>>]},
    maxlen   : IF HasTag(shape, "SS") THEN CallMaxLens ELSE {0},
    int_bits : IF HasTag(shape, "SS") THEN IntWidths ELSE {16},
    data     : IF HasTag(shape, "MM") THEN CallBuffers ELSE {<<>>} ]

\* cmd_NAME(...) for a NAME of CmdProtos
DoCmdCall(name, a) ==
  /\ pc = "idle"
  /\ gh.total < MaxRecords
  /\ LET p == CmdProtos[name]
         r == CmdRecord(Fresh, cmd_index, W32(\hFFFF, \hFF00 + p.code), ProtoFields(p.shape, 1, a))
     IN  /\ Commit(r.w)
         /\ cmd_index' = r.index
         /\ ret' = r.index
         /\ gh' = [gh EXCEPT !.appended = @ + r.bytes, !.total = @ + 1]
         /\ loc' = [name |-> name, shape |-> p.shape, args |-> a, outs |-> r.outs, before |-> cmd_index]
  /\ op' = "cmd_call"
  /\ UNCHANGED <<pc, dl_index, err, ix, profile>>

NextRecord ==
  \/ (gh.total = 0 /\ DoCmdInitWriteIndex)
  \/ \E name \in DOMAIN CmdProtos : \E a \in CallArgs(CmdProtos[name].shape) : DoCmdCall(name, a)

SpecRecord == InitRing /\ [][NextRecord]_vars

\* the bytes of the record as the chip receives them: what was sent after the
\* three bytes of the transaction header
RecordData ==
  LET sends == SelectSeq(log, IsSend)
  IN  SubSeq(sends, 4, Len(sends))

\* bytes of the fields of fixed size
RECURSIVE FixedBytes(_)
FixedBytes(shape) ==
  IF shape = <<>> THEN 0
  ELSE (CASE Head(shape) = "V2" -> 2
          [] Head(shape) \in {"V4", "Q4"} -> 4
          [] OTHER -> 0) + FixedBytes(Tail(shape))

\* C12: every record a cmd_ function transmits (command word, fields, string
\* or buffer, padding) has a length that is a multiple of 4, the bytes after
\* the string's terminator or after the buffer are zero, and a write index that
\* was a multiple of 4 before the call is one after it.
C12_RecordsPadded ==
  (op = "cmd_call" /\ pc = "idle") =>
    LET d     == RecordData
        n     == Len(d)
        fixed == 4 + FixedBytes(loc.shape)
    IN  /\ n % 4 = 0
        /\ HasTag(loc.shape, "SS") =>
             \A i \in (fixed + 1) .. n :
               (\E j \in (fixed + 1) .. (i - 1) : d[j][2] = 0) => d[i][2] = 0
        /\ HasTag(loc.shape, "MM") =>
             \A i \in (fixed + Len(loc.args.data) + 1) .. n : d[i][2] = 0
        /\ (loc.before % 4 = 0) => (cmd_index % 4 = 0)

\* the positions of the zero bytes of d from position i on, in order
RECURSIVE ZeroPositions(_, _)
ZeroPositions(d, i) ==
  IF i > Len(d) THEN <<>>
  ELSE (IF d[i][2] = 0 THEN <<i>> ELSE <<>>) \o ZeroPositions(d, i + 1)

\* C13: in a command with output parameters the only zero bytes of the record
\* are the 4-byte slots (the arguments have no zero byte), one slot per output
\* parameter whether its pointer is NULL or not; the index stored through a
\* non-NULL pointer is the ring offset, modulo 4096, of the first byte of its
\* slot, and each slot starts 4 bytes after the one before.
C13_OutputSlots ==
  (op = "cmd_call" /\ pc = "idle" /\ HasTag(loc.shape, "Q4")) =>
    LET d  == RecordData
        z  == ZeroPositions(d, 1)
        nq == Len(loc.outs)
        at(k) == z[4 * k - 3] - 1
    IN  /\ calls = << <<"write", RAM_CMD + loc.before, 1>> >>
        /\ Len(d) = 4 + FixedBytes(loc.shape)
        /\ nq = Len(SelectSeq(loc.shape, LAMBDA t : t = "Q4"))
        /\ Len(z) = 4 * nq
        /\ \A k \in 1 .. nq :
             /\ \A j \in 1 .. 3 : z[4 * k - 3 + j] = z[4 * k - 3] + j
             /\ (loc.outs[k] = -1) <=> (k \in loc.args.nulls)
             /\ (loc.outs[k] # -1) => loc.outs[k] = (loc.before + at(k)) % RAM_CMD_SIZE
             /\ (k > 1) => at(k) = at(k - 1) + 4

\* cmd_GETMATRIX at the end of the ring with its second and third pointer
\* NULL: the first slot wraps to offset 0, the fourth is at 12
C13_Witness ==
  /\ op = "cmd_call" /\ pc = "idle" /\ loc.name = "GETMATRIX" /\ loc.before = 4092
  /\ loc.args.nulls = {2, 3}
  /\ loc.outs = <<0, -1, -1, 12, 16, 20>>

-----------------------------------------------------------------------------
(* The display-list encoders ENC_name (specification SpecEnc) *)

W32And(a, b) == W32(BitAnd(a.hi, b.hi), BitAnd(a.lo, b.lo))

\* uint32_t << r and uint32_t >> r, for r below 32
W32Shl(a, r) ==
  IF r >= 16 THEN W32((a.lo % (2 ^ (32 - r))) * (2 ^ (r - 16)), 0)
  ELSE W32((a.hi % (2 ^ (16 - r))) * (2 ^ r) + a.lo \div (2 ^ (16 - r)),
           (a.lo % (2 ^ (16 - r))) * (2 ^ r))

W32Shr(a, r) ==
  IF r >= 16 THEN W32(0, a.hi \div (2 ^ (r - 16)))
  ELSE W32(a.hi \div (2 ^ r), (a.hi % (2 ^ r)) * (2 ^ (16 - r)) + a.lo \div (2 ^ r))

\* W one-bits, right-justified, for W from 0 to 32
MaskBits(W) ==
  IF W >= 16 THEN W32(2 ^ (W - 16) - 1, \hFFFF) ELSE W32(0, 2 ^ W - 1)

\* What a build can make of (1 << W) - 1 where it is undefined (the 1 is an
\* int, and W is not below the width of int): "wrap", the int keeps the low
\* bits of 2^W, which are 0, and the mask is -1; "modulo", the shift count is
\* taken modulo the width of int; "wide", the expression is evaluated in a
\* register wider than int and gives the mask that was meant.
ShiftOutcomes == {"wrap", "modulo", "wide"}

\* The mask of the N macro, ((1 << W) - 1) converted to uint32_t.  For
\* W = int_bits - 1 the shift gives the most negative int and the subtraction
\* wraps to the largest.
NMask(W, int_bits, ub) ==
  IF W < int_bits \/ ub = "wide" THEN MaskBits(W)
  ELSE IF ub = "wrap" THEN W32(\hFFFF, \hFFFF)
  ELSE MaskBits(W % int_bits)

\* the N macro on a uint32_t value
NField(value, leftbit, rightbit, int_bits, ub) ==
  W32Shl(W32And(value, NMask((leftbit - rightbit) + 1, int_bits, ub)), rightbit)

\* Every ENC(name, ...): the top byte of ENC_CMD_name and, for each N(...) of
\* its value, the type of the parameter and the left and right bit.  "en" is
\* an enumeration type.
EncTable ==
  [
    ALPHA_FUNC         |-> [op |-> \h09, fields |-> <<<<"en", 10, 8>>, <<"u8", 7, 0>>>>],
    BITMAP_HANDLE      |-> [op |-> \h05, fields |-> <<<<"u8", 4, 0>>>>],
    BEGIN              |-> [op |-> \h1F, fields |-> <<<<"en", 3, 0>>>>],
    BITMAP_EXT_FORMAT  |-> [op |-> \h2E, fields |-> <<<<"en", 15, 0>>>>],
    BITMAP_LAYOUT      |-> [op |-> \h07, fields |-> <<<<"en", 23, 19>>, <<"u32", 18, 9>>, <<"u32", 8, 0>>>>],
    BITMAP_LAYOUT_H    |-> [op |-> \h28, fields |-> <<<<"u32", 3, 2>>, <<"u32", 1, 0>>>>],
    BITMAP_SIZE        |-> [op |-> \h08, fields |-> <<<<"en", 20, 20>>, <<"en", 19, 19>>, <<"en", 18, 18>>, <<"u16", 17, 9>>, <<"u16", 8, 0>>>>],
    BITMAP_SIZE_H      |-> [op |-> \h29, fields |-> <<<<"u16", 3, 2>>, <<"u16", 1, 0>>>>],
    BITMAP_SOURCE      |-> [op |-> \h01, fields |-> <<<<"u32", 21, 0>>>>],
    BITMAP_TRANSFORM_A |-> [op |-> \h15, fields |-> <<<<"u32", 16, 0>>>>],
    BITMAP_TRANSFORM_B |-> [op |-> \h16, fields |-> <<<<"u32", 16, 0>>>>],
    BITMAP_TRANSFORM_C |-> [op |-> \h17, fields |-> <<<<"u32", 23, 0>>>>],
    BITMAP_TRANSFORM_D |-> [op |-> \h18, fields |-> <<<<"u32", 16, 0>>>>],
    BITMAP_TRANSFORM_E |-> [op |-> \h19, fields |-> <<<<"u32", 16, 0>>>>],
    BITMAP_TRANSFORM_F |-> [op |-> \h1A, fields |-> <<<<"u32", 23, 0>>>>],
    BLEND_FUNC         |-> [op |-> \h0B, fields |-> <<<<"en", 5, 3>>, <<"en", 2, 0>>>>],
    CALL               |-> [op |-> \h1D, fields |-> <<<<"u32", 15, 0>>>>],
    CELL               |-> [op |-> \h06, fields |-> <<<<"u8", 6, 0>>>>],
    CLEAR              |-> [op |-> \h26, fields |-> <<<<"u8", 2, 2>>, <<"u8", 1, 1>>, <<"u8", 0, 0>>>>],
    CLEAR_COLOR_A      |-> [op |-> \h0F, fields |-> <<<<"u8", 7, 0>>>>],
    CLEAR_COLOR_RGB    |-> [op |-> \h02, fields |-> <<<<"u8", 23, 16>>, <<"u8", 15, 8>>, <<"u8", 7, 0>>>>],
    CLEAR_COLOR        |-> [op |-> \h02, fields |-> <<<<"u32", 23, 0>>>>],
    CLEAR_STENCIL      |-> [op |-> \h11, fields |-> <<<<"u8", 7, 0>>>>],
    CLEAR_TAG          |-> [op |-> \h12, fields |-> <<<<"u8", 7, 0>>>>],
    COLOR_A            |-> [op |-> \h10, fields |-> <<<<"u8", 7, 0>>>>],
    COLOR_MASK         |-> [op |-> \h20, fields |-> <<<<"u8", 3, 3>>, <<"u8", 2, 2>>, <<"u8", 1, 1>>, <<"u8", 0, 0>>>>],
    COLOR_RGB          |-> [op |-> \h04, fields |-> <<<<"u8", 23, 16>>, <<"u8", 15, 8>>, <<"u8", 7, 0>>>>],
    COLOR              |-> [op |-> \h04, fields |-> <<<<"u32", 23, 0>>>>],
    DISPLAY            |-> [op |-> \h00, fields |-> <<>>],
    END                |-> [op |-> \h21, fields |-> <<>>],
    JUMP               |-> [op |-> \h1E, fields |-> <<<<"u16", 15, 0>>>>],
    LINE_WIDTH         |-> [op |-> \h0E, fields |-> <<<<"u16", 11, 0>>>>],
    MACRO              |-> [op |-> \h25, fields |-> <<<<"u8", 0, 0>>>>],
    NOP                |-> [op |-> \h2D, fields |-> <<>>],
    PALETTE_SOURCE     |-> [op |-> \h2A, fields |-> <<<<"u32", 21, 0>>>>],
    POINT_SIZE         |-> [op |-> \h0D, fields |-> <<<<"u16", 12, 0>>>>],
    RESTORE_CONTEXT    |-> [op |-> \h23, fields |-> <<>>],
    RETURN             |-> [op |-> \h24, fields |-> <<>>],
    SAVE_CONTEXT       |-> [op |-> \h22, fields |-> <<>>],
    SCISSOR_SIZE       |-> [op |-> \h1C, fields |-> <<<<"u16", 23, 12>>, <<"u16", 11, 0>>>>],
    SCISSOR_XY         |-> [op |-> \h1B, fields |-> <<<<"u16", 21, 11>>, <<"u16", 10, 0>>>>],
    STENCIL_FUNC       |-> [op |-> \h0A, fields |-> <<<<"en", 19, 16>>, <<"u8", 15, 8>>, <<"u8", 7, 0>>>>],
    STENCIL_MASK       |-> [op |-> \h13, fields |-> <<<<"u8", 7, 0>>>>],
    STENCIL_OP         |-> [op |-> \h0C, fields |-> <<<<"en", 5, 3>>, <<"en", 2, 0>>>>],
    TAG                |-> [op |-> \h03, fields |-> <<<<"u8", 7, 0>>>>],
    TAG_MASK           |-> [op |-> \h14, fields |-> <<<<"u8", 0, 0>>>>],
    VERTEX2F           |-> [op |-> \h40, fields |-> <<<<"i16", 29, 15>>, <<"i16", 14, 0>>>>],
    VERTEX2II          |-> [op |-> \h80, fields |-> <<<<"u16", 29, 21>>, <<"u16", 20, 12>>, <<"u8", 11, 7>>, <<"u8", 6, 0>>>>],
    VERTEX_FORMAT      |-> [op |-> \h27, fields |-> <<<<"u8", 2, 0>>>>],
    VERTEX_TRANSLATE_X |-> [op |-> \h2B, fields |-> <<<<"u32", 16, 0>>>>],
    VERTEX_TRANSLATE_Y |-> [op |-> \h2C, fields |-> <<<<"u32", 16, 0>>>>] ]

\* an argument converted to the type of the parameter, then to uint32_t
ParamConv(type, x) ==
  CASE type = "u8"  -> W32(0, x.lo % 256)
    [] type = "i16" -> W32(IF x.lo >= 32768 THEN \hFFFF ELSE 0, x.lo)
    [] type = "u32" -> x
    [] OTHER        -> W32(0, x.lo)

\* ENC_CMD_name | value: the fields from the k-th on, or-ed together
RECURSIVE EncValue(_, _, _, _, _)
EncValue(fields, params, k, int_bits, ub) ==
  IF k > Len(fields) THEN ToW32(0)
  ELSE W32Or(NField(params[k], fields[k][2], fields[k][3], int_bits, ub),
             EncValue(fields, params, k + 1, int_bits, ub))

\* ENC_name(params)
EncWord(name, params, int_bits, ub) ==
  W32Or(W32(EncTable[name].op * 256, 0), EncValue(EncTable[name].fields, params, 1, int_bits, ub))

ParamSeeds == {W32(0, 0), W32(\hFFFF, \hFFFF), W32(\hA5A5, \hA5A5)}

\* the call whose arguments the initial state holds
DoEnc ==
  /\ pc = "idle" /\ op = "none"
  /\ LET f      == EncTable[loc.name].fields
         params == [k \in 1 .. Len(f) |-> ParamConv(f[k][1], loc.args[k])]
     IN  loc' = [name |-> loc.name, params |-> params, int_bits |-> loc.int_bits, ub |-> loc.ub,
                 word |-> EncWord(loc.name, params, loc.int_bits, loc.ub)]
  /\ op' = "ENC"
  /\ UNCHANGED <<pc, ret, cs, txn, log, calls, mem, script, cmd_index, dl_index, err, ix, gh, profile>>

\* an encoder, its arguments and the build
InitEnc ==
  /\ pc = "idle" /\ ret = 0 /\ op = "none"
  /\ InitBus /\ InitDrv /\ InitGh /\ InitIx /\ InitMem(0, 0)
  /\ script = SteadyScript /\ profile = DefaultProfile
  /\ \E name \in DOMAIN EncTable, int_bits \in IntWidths, ub \in ShiftOutcomes :
       \E args \in [1 .. Len(EncTable[name].fields) -> ParamSeeds] :
         /\ (int_bits = 32) => (ub = "wrap")
         /\ loc = [name |-> name, args |-> args, int_bits |-> int_bits, ub |-> ub]

NextEnc == DoEnc

SpecEnc == InitEnc /\ [][NextEnc]_vars

\* bits leftbit..rightbit of a 32-bit word
Extract(word, leftbit, rightbit) ==
  W32And(W32Shr(word, rightbit), ToW32(2 ^ ((leftbit - rightbit) + 1) - 1))

-----------------------------------------------------------------------------
(* Begin: the order of the panel writes and the chip-ID check               *)

\* transaction j of the current operation is a memory write to addr
IsWrite(j, addr) == calls[j][1] = "write" /\ calls[j][2] = addr

\* the data of write j: its bytes follow a deselect, a select and the three
\* header bytes
Written8(j)  == log[calls[j][3] + 5][2]
Written16(j) == log[calls[j][3] + 5][2] + 256 * log[calls[j][3] + 6][2]

\* the ten panel-timing registers and the profile field each one receives
TimingRegs ==
  { <<REG_HSIZE, "hsize">>, <<REG_HCYCLE, "hcycle">>, <<REG_HOFFSET, "hoffset">>,
    <<REG_HSYNC0, "hsync0">>, <<REG_HSYNC1, "hsync1">>,
    <<REG_VSIZE, "vsize">>, <<REG_VCYCLE, "vcycle">>, <<REG_VOFFSET, "voffset">>,
    <<REG_VSYNC0, "vsync0">>, <<REG_VSYNC1, "vsync1">> }

PclkWrites == { j \in 1 .. Len(calls) : IsWrite(j, REG_PCLK) }

\* the writes to REG_PCLK after the first one
PclkStarts == { j \in PclkWrites : \E i \in PclkWrites : i < j }

\* everything the panel needs has been written before transaction j
PanelSetUp(j) ==
  /\ \A r \in TimingRegs :
       \E i \in 1 .. j - 1 : IsWrite(i, r[1]) /\ Written16(i) = profile[r[2]]
  /\ \E i \in 1 .. j - 1 : IsWrite(i, REG_SWIZZLE) /\ Written8(i) = profile.swizzle
  /\ \E i \in 1 .. j - 1 : IsWrite(i, REG_PCLK_POL) /\ Written8(i) = profile.pclkpol
  /\ \E i \in 1 .. j - 3 :
       IsWrite(i, RAM_DL) /\ IsWrite(i + 1, RAM_DL + 4) /\ IsWrite(i + 2, RAM_DL + 8)
  /\ \E i \in 1 .. j - 1 : IsWrite(i, REG_DLSWAP)
  /\ \E i \in 1 .. j - 1 : IsWrite(i, REG_GPIOX) /\ Written16(i) >= 32768

\* C17: in every run of Begin, REG_PCLK is written with 0 before any
\* panel-timing register is written; the pixel-clock divisor of the profile
\* is written to REG_PCLK only after the ten timing registers, REG_SWIZZLE,
\* REG_PCLK_POL, the three words of the first display list, REG_DLSWAP and
\* bit 15 of REG_GPIOX have been written; REG_PWM_HZ = 300 and
\* REG_PWM_DUTY = 32 are written only after that; a Begin that returns true
\* has made all of these writes.
C17_BeginPanelOrder ==
  (op = "Begin") =>
    /\ \A j \in 1 .. Len(calls) :
         (\E r \in TimingRegs : IsWrite(j, r[1])) =>
            \E i \in 1 .. j - 1 : IsWrite(i, REG_PCLK) /\ Written8(i) = 0
    /\ \A j \in PclkWrites :
         IF j \in PclkStarts
         THEN Written8(j) = profile.pclk /\ PanelSetUp(j)
         ELSE Written8(j) = 0
    /\ \A j \in 1 .. Len(calls) :
         /\ IsWrite(j, REG_PWM_HZ) =>
              (Written16(j) = 300 /\ \E i \in PclkStarts : i < j)
         /\ (IsWrite(j, REG_PWM_DUTY) /\ Written8(j) # 0) =>
              (Written8(j) = 32 /\ \E i \in PclkStarts : i < j)
    /\ (pc = "idle" /\ ret = 1) =>
         /\ Cardinality(PclkWrites) = 2
         /\ Len(calls) >= 2
         /\ IsWrite(Len(calls) - 1, REG_PWM_HZ)
         /\ IsWrite(Len(calls), REG_PWM_DUTY) /\ Written8(Len(calls)) = 32

\* Begin returned true for the FT813 profile: the panel is clocked and the
\* backlight is on
C17_Witness ==
  /\ BeginReturned /\ ret = 1 /\ profile.chipid = CHIPID_FT813
  /\ PclkStarts # {} /\ \A j \in PclkStarts : PanelSetUp(j)
  /\ IsWrite(Len(calls), REG_PWM_DUTY) /\ Written8(Len(calls)) = 32

IsChipIdRead(j) ==
  calls[j][1] = "read" /\ calls[j][2] \in REG_CHIP_ID .. REG_CHIP_ID + 3

ChipIdReads == { j \in 1 .. Len(calls) : IsChipIdRead(j) }

\* C18: when the profile holds CHIPID_ANY, no read transaction addressed to
\* REG_CHIP_ID occurs at any point of Begin, and the chip-ID step goes on to
\* the next step without a transport call whatever the chip holds at that
\* address.
C18_WildcardSkipsChipId ==
  [][ (op' = "Begin" /\ profile.chipid = CHIPID_ANY) =>
        /\ \A j \in 1 .. Len(calls') :
             ~(calls'[j][1] = "read" /\ calls'[j][2] \in REG_CHIP_ID .. REG_CHIP_ID + 3)
        /\ loc'.failed # "Begin_CHIP_ID"
        /\ (pc = "Begin_CHIP_ID") =>
             (pc' = "Begin_Start" /\ ret' = ret /\ log' = log /\ calls' = calls) ]_vars

\* Begin returned true for the wildcard profile on a chip whose ID matches no
\* known chip
C18_Witness ==
  /\ BeginReturned /\ ret = 1 /\ profile.chipid = CHIPID_ANY
  /\ mem[REG_CHIP_ID + 3] = \h80
  /\ ChipIdReads = {}

\* the polls of REG_ID and REG_CPURESET of the current Begin have passed
BeginPastPolls ==
  /\ op = "Begin"
  /\ IF InBegin(pc) THEN BeginStepNo(pc) > BeginStepNo("Begin_CHIP_ID")
     ELSE loc.failed \notin {"Begin_REG_ID", "Begin_REG_CPURESET"}

\* the 32-bit value received by read transaction j: a deselect, a select,
\* three header bytes and the dummy byte come before its four bytes
Read32Value(j) ==
  LET at == calls[j][3] + 5
  IN  W32(log[at + 3][3] + 256 * log[at + 4][3], log[at + 1][3] + 256 * log[at + 2][3])

\* transaction j received exactly four bytes
IsRead32(j) ==
  LET at == calls[j][3] + 5
  IN  /\ Len(log) >= at + 4
      /\ \A k \in 1 .. 4 : log[at + k][1] = "Receive8"
      /\ (Len(log) > at + 4) => log[at + 5][1] = "Select"

\* C19: when the profile's chip ID is not CHIPID_ANY and the polls of REG_ID
\* and REG_CPURESET passed, Begin reads the 32-bit REG_CHIP_ID exactly once
\* (and not before the polls passed).  Begin returns false from the check if
\* and only if the value read differs from the chip ID of the profile, and
\* then no memory write has been made by Begin; when the value is equal,
\* Begin goes on, and returns true unless EarlyInit or TouchInit of a
\* subclass returns false.
C19_ChipIdCheck ==
  (op = "Begin" /\ profile.chipid # CHIPID_ANY) =>
    IF BeginPastPolls
    THEN /\ Cardinality(ChipIdReads) = 1
         /\ \A j \in ChipIdReads :
              /\ calls[j][2] = REG_CHIP_ID /\ IsRead32(j)
              /\ (Read32Value(j) # profile.chipid) <=> (loc.failed = "Begin_CHIP_ID")
              /\ (loc.failed = "Begin_CHIP_ID") =>
                   /\ pc = "idle" /\ ret = 0 /\ j = Len(calls)
                   /\ \A i \in 1 .. Len(calls) : calls[i][1] # "write"
              /\ (Read32Value(j) = profile.chipid /\ pc = "idle") =>
                   (ret = 0 <=> ~loc.hook)
    ELSE ChipIdReads = {}

\* Begin read 0x80011308 where the profile expects an FT813 and returned false
C19_Witness ==
  /\ BeginReturned /\ ret = 0 /\ loc.failed = "Begin_CHIP_ID"
  /\ profile.chipid = CHIPID_FT813
  /\ \E j \in ChipIdReads : Read32Value(j) = W32(\h8001, \h1308)

\* Begin read the chip ID the FT813 profile expects and returned true
C19_WitnessMatch ==
  /\ BeginReturned /\ ret = 1 /\ profile.chipid = CHIPID_FT813
  /\ \E j \in ChipIdReads : Read32Value(j) = CHIPID_FT813

-----------------------------------------------------------------------------
(* Begin runs to its end (specification SpecBeginRuns).  Begin is straight- *)
(* line code: once called, each of its steps is taken when it is reached;   *)
(* the hooks EarlyInit and TouchInit return.                                 *)

SpecBeginRuns ==
  /\ SpecBegin
  /\ WF_vars(BeginWaitId) /\ WF_vars(BeginWaitCpuReset) /\ WF_vars(BeginChipId)
  /\ WF_vars(DoBeginStart) /\ WF_vars(BeginEarlyInit) /\ WF_vars(DoBeginPanel)
  /\ WF_vars(BeginTouchInit) /\ WF_vars(DoBeginFinish)

IsCpuResetRead(c) == c[1] = "read" /\ c[2] = REG_CPURESET
CpuResetReads == SelectSeq(calls, IsCpuResetRead)

IsPoll(c) == IsIdRead(c) \/ IsCpuResetRead(c)

\* the transactions of the current operation other than the polls of REG_ID
\* and REG_CPURESET
NotPolls == SelectSeq(calls, LAMBDA c : ~IsPoll(c))

\* C20: Begin always terminates, whatever the chip returns and also when it
\* never answers: a Begin that was called returns; it polls REG_ID at most
\* 250 times and REG_CPURESET at most 250 times, and beyond the polls it
\* makes a bounded number of transactions (36 and one per entry of the
\* pin-drive table at most).
C20_BeginTerminates ==
  /\ [][ (op' = "Begin") =>
           /\ Len(IdReads') <= BEGIN_MAXTRIES
           /\ Len(CpuResetReads') <= BEGIN_MAXTRIES
           /\ Len(NotPolls') <= 36 + Len(profile.pindrivetable) ]_vars
  /\ (InBegin(pc) ~> (pc = "idle"))

\* Begin gave up after 250 polls of REG_CPURESET on a chip that stays in reset
C20_Witness ==
  /\ BeginReturned /\ ret = 0 /\ loc.failed = "Begin_REG_CPURESET"
  /\ Len(CpuResetReads) = BEGIN_MAXTRIES

-----------------------------------------------------------------------------
(* Two driver instances on one SPI bus (specification SpecShared).  Each    *)
(* instance has its own SteveHAL_Arduino (its own chip-select pin and       *)
(* _selected flag) and its own chip; clock and data lines are shared, so a  *)
(* byte transferred by one instance reaches every chip whose chip-select    *)
(* pin is low.  The caller runs one public operation at a time.             *)

MaxSharedOps == 3   \* operations of the two instances in one run (SpecShared)

Instances == {1, 2}

SharedAddresses == {0, REG_GPIOX}
SharedValues    == {\h5A, \hC3}

IsTransfer(e) == e[1] \in {"Send8", "Receive8"}

\* The transport calls `events` of one instance, replayed on the shared bus:
\* `sel` is the chip-select pin of the calling instance, `other` the world of
\* the other instance (its pin is other.cs).  maxsel is the largest number of
\* chips selected while a byte was transferred, foreign the number of bytes
\* the other chip clocked in.
RECURSIVE SharedReplay(_, _, _, _, _)
SharedReplay(events, sel, other, maxsel, foreign) ==
  IF events = <<>> THEN [other |-> other, maxsel |-> maxsel, foreign |-> foreign]
  ELSE LET e == Head(events)
           n == B2N(sel) + B2N(other.cs)
       IN  IF e[1] = "Select"
           THEN SharedReplay(Tail(events), e[2] = 1, other, maxsel, foreign)
           ELSE IF IsTransfer(e)
           THEN The({ SharedReplay(Tail(events), sel, o, IF n > maxsel THEN n ELSE maxsel,
                                   foreign + B2N(other.cs)) :
                        o \in { ChipTransfer(other, e[2]) } })
           ELSE SharedReplay(Tail(events), sel, other, maxsel, foreign)

\* the world of instance i at the entry of an operation
SharedFresh(i) == [loc.w[i] EXCEPT !.log = <<>>, !.calls = <<>>, !.rx = 0]

\* instance i has run an operation that left its world as w
SharedDone(i, name, w) ==
  /\ pc = "idle"
  /\ gh.ops < MaxSharedOps
  /\ LET j == 3 - i
         r == SharedReplay(w.log, loc.w[i].cs, loc.w[j], loc.maxsel, loc.foreign[j])
     IN  loc' = [w       |-> [k \in Instances |-> IF k = i THEN w ELSE r.other],
                 by      |-> i,
                 maxsel  |-> r.maxsel,
                 foreign |-> [k \in Instances |-> IF k = j THEN r.foreign ELSE loc.foreign[k]]]
  /\ Commit(w)
  /\ op' = name
  /\ gh' = [gh EXCEPT !.ops = @ + 1]
  /\ UNCHANGED <<pc, ret, cmd_index, dl_index, err, ix, profile>>

DoSharedWrite(i, address22, value) ==
  SharedDone(i, "RegWrite8", RegWrite8(SharedFresh(i), address22, value))

DoSharedRead(i, address22) ==
  SharedDone(i, "RegRead8", RegRead8(SharedFresh(i), address22))

DoSharedPause(i, pause) ==
  SharedDone(i, "Pause", Pause(SharedFresh(i), pause))

InitShared ==
  /\ InitBus /\ InitDrv /\ InitGh /\ InitIx /\ InitMem(0, 0)
  /\ pc = "idle" /\ ret = 0 /\ op = "none"
  /\ script = SteadyScript /\ profile = DefaultProfile
  /\ loc = [w       |-> [k \in Instances |-> World],
            by      |-> 0,
            maxsel  |-> 0,
            foreign |-> [k \in Instances |-> 0]]

NextShared ==
  \/ \E i \in Instances, address22 \in SharedAddresses, value \in SharedValues :
       DoSharedWrite(i, address22, value)
  \/ \E i \in Instances, address22 \in SharedAddresses : DoSharedRead(i, address22)
  \/ \E i \in Instances, pause \in BOOLEAN : DoSharedPause(i, pause)

SpecShared == InitShared /\ [][NextShared]_vars

\* C21: with two instances on one bus, distinct chip-select pins and
\* operations that are never interleaved, at most one chip is selected
\* whenever a byte is transferred, so no chip clocks in a byte of the other
\* instance.
C21_OneChipSelected ==
  (gh.ops > 0) => (loc.maxsel <= 1 /\ \A k \in Instances : loc.foreign[k] = 0)

-----------------------------------------------------------------------------
(* Appending words to the command ring and to the display list              *)
(* (specification SpecAppend)                                                *)

MaxAppends == 3     \* calls of Cmd, DLAdd and DLResetIndex in one run (SpecAppend)

AppendWords  == {ENC_CMD_DLSTART, W32(\h1234, \h5678)}
ResetIndexes == {0, 6, 4092, 8188, 8196, 65532}

\* the end of a call of `name` with the argument arg
AppendDone(name, arg) ==
  /\ pc = "idle"
  /\ gh.ops < MaxAppends
  /\ op' = name
  /\ loc' = [arg |-> arg, cmd_index |-> cmd_index, dl_index |-> dl_index,
             aligned |-> loc.aligned /\ (name = "DLResetIndex" => arg % 4 = 0)]
  /\ gh' = [gh EXCEPT !.ops = @ + 1]
  /\ UNCHANGED <<pc, err, ix, profile>>

\* Cmd(command)
DoAppendCmd(command) ==
  /\ AppendDone("Cmd", command)
  /\ Commit(Cmd(Fresh, cmd_index, command))
  /\ cmd_index' = CmdNext(cmd_index)
  /\ ret' = CmdNext(cmd_index)
  /\ UNCHANGED dl_index

\* DLAdd(value)
DoAppendDL(value) ==
  /\ AppendDone("DLAdd", value)
  /\ Commit(DLAdd(Fresh, dl_index, value))
  /\ dl_index' = DLNext(dl_index)
  /\ ret' = DLNext(dl_index)
  /\ UNCHANGED cmd_index

\* DLResetIndex(index)
DoDLResetIndex(index) ==
  /\ AppendDone("DLResetIndex", index)
  /\ Commit(Fresh)
  /\ dl_index' = DLResetIndex(index)
  /\ UNCHANGED <<ret, cmd_index>>

InitAppend ==
  /\ InitBus /\ InitIx /\ InitGh /\ InitMem(0, 0)
  /\ pc = "idle" /\ ret = 0 /\ op = "none"
  /\ script = SteadyScript /\ profile = DefaultProfile
  /\ err = -1
  /\ cmd_index \in {IndexNew(RAM_CMD_SIZE, 0), IndexNew(RAM_CMD_SIZE, 4092)}
  /\ dl_index = IndexNew(RAM_DL_SIZE, 0)
  /\ loc = [arg |-> 0, cmd_index |-> cmd_index, dl_index |-> dl_index, aligned |-> TRUE]

NextAppend ==
  \/ \E command \in AppendWords : DoAppendCmd(command)
  \/ \E value \in AppendWords : DoAppendDL(value)
  \/ \E index \in ResetIndexes : DoDLResetIndex(index)

SpecAppend == InitAppend /\ [][NextAppend]_vars

\* the transport calls of one memory write of the 32-bit word `word` at
\* addr: deselect, select, the header 0x800000 | addr most significant byte
\* first, the four bytes of the word least significant byte first
IsWrite32(l, c, addr, word) ==
  /\ c = << <<"write", addr, 1>> >>
  /\ Len(l) = 9
  /\ IsOpen(l[1], FALSE) /\ IsOpen(l[2], TRUE)
  /\ l[3] = Ev("Send8", 128 + (addr \div 65536), 0)
  /\ l[4] = Ev("Send8", (addr \div 256) % 256, 0)
  /\ l[5] = Ev("Send8", addr % 256, 0)
  /\ l[6] = Ev("Send8", word.lo % 256, 0)
  /\ l[7] = Ev("Send8", word.lo \div 256, 0)
  /\ l[8] = Ev("Send8", word.hi % 256, 0)
  /\ l[9] = Ev("Send8", word.hi \div 256, 0)

\* C22: Cmd(word) opens a memory write at RAM_CMD + cmd_index, sends the four
\* bytes of the word least significant byte first, advances cmd_index by 4
\* modulo 4096 and returns the new index; the address of the transaction is
\* inside [RAM_CMD, RAM_CMD + RAM_CMD_SIZE).
C22_CmdAppends ==
  (op = "Cmd") =>
    /\ IsWrite32(log, calls, RAM_CMD + loc.cmd_index, loc.arg)
    /\ cmd_index = (loc.cmd_index + 4) % 4096
    /\ ret = cmd_index
    /\ dl_index = loc.dl_index
    /\ calls[1][2] >= RAM_CMD /\ calls[1][2] < RAM_CMD + RAM_CMD_SIZE

\* a word was appended in the last slot of the ring and the index wrapped
C22_Witness ==
  /\ op = "Cmd" /\ loc.cmd_index = 4092 /\ cmd_index = 0 /\ ret = 0
  /\ loc.arg = W32(\h1234, \h5678)

\* C23: DLAdd(value) writes the 32-bit value at RAM_DL + dl_index, advances
\* dl_index by 4 modulo 8192 and returns the new index; DLResetIndex(i) sets
\* dl_index to i mod 8192; as long as every reset value is a multiple of 4,
\* dl_index is a multiple of 4 and the four bytes of every DLAdd lie inside
\* [RAM_DL, RAM_DL + RAM_DL_SIZE).
C23_DLAppends ==
  /\ (op = "DLAdd") =>
       /\ IsWrite32(log, calls, RAM_DL + loc.dl_index, loc.arg)
       /\ dl_index = (loc.dl_index + 4) % 8192
       /\ ret = dl_index
       /\ cmd_index = loc.cmd_index
  /\ (op = "DLResetIndex") =>
       (dl_index = loc.arg % 8192 /\ log = <<>> /\ cmd_index = loc.cmd_index)
  /\ (op \in {"DLAdd", "DLResetIndex", "Cmd"} /\ loc.aligned) =>
       /\ dl_index % 4 = 0
       /\ (op = "DLAdd") =>
            (calls[1][2] >= RAM_DL /\ calls[1][2] + 3 < RAM_DL + RAM_DL_SIZE)

\* the display list was reset to its last word, a word was added there and
\* the index wrapped to 0
C23_Witness ==
  /\ op = "DLAdd" /\ loc.dl_index = 8188 /\ dl_index = 0 /\ loc.aligned
  /\ gh.ops >= 2

-----------------------------------------------------------------------------
(* Construction of a display profile, followed by Begin (specification      *)
(* SpecDisplay)                                                              *)

\* _hcycle / _vcycle without the padding
DisplayCycleNoPadding(a) == U16(a.frontporch + a.syncwidth + a.backporch + a.width)

\* _hcycle / _vcycle: the sum of uint16_t values is stored in a uint16_t
DisplayCycle(a) == U16(a.frontporch + a.syncwidth + a.backporch + a.width + a.padding)

\* _hoffset / _voffset
DisplayOffset(a) == U16(a.frontporch + a.syncwidth + a.backporch)

\* _hsync1 / _vsync1
DisplaySync1(a) == U16(a.frontporch + a.syncwidth)

\* SteveDisplay::SteveDisplay(width, hfrontporch, ..., vpadding, pclk, pclkpol, swizzle)
SteveDisplay(h, v, pclk, pclkpol, swizzle) ==
  [clkext |-> FALSE, clksel |-> 0, chipid |-> CHIPID_ANY, frequency |-> ToW32(0),
   lcd10ma |-> FALSE, cspread |-> FALSE, dither |-> FALSE, outbits |-> 0,
   hsize |-> h.width, hcycle |-> DisplayCycle(h), hoffset |-> DisplayOffset(h),
   hsync0 |-> h.frontporch, hsync1 |-> DisplaySync1(h),
   vsize |-> v.width, vcycle |-> DisplayCycle(v), voffset |-> DisplayOffset(v),
   vsync0 |-> v.frontporch, vsync1 |-> DisplaySync1(v),
   swizzle |-> swizzle, pclkpol |-> pclkpol, pclk |-> pclk,
   pindrivetable |-> <<>>, haspindrive |-> FALSE]

Axis(width, frontporch, syncwidth, backporch, padding) ==
  [width |-> width, frontporch |-> frontporch, syncwidth |-> syncwidth,
   backporch |-> backporch, padding |-> padding]

\* constructor arguments for one axis: the two axes of the CFA480128, the
\* horizontal axis of an 800x480 panel, sums that pass 65535, zeros
AxisArgs ==
  { Axis(480, 24, 11, 6, 521), Axis(128, 4, 1, 3, 1), Axis(800, 16, 4, 26, 82),
    Axis(65535, 65535, 65535, 65535, 65535), Axis(40000, 20000, 10000, 5000, 2),
    Axis(0, 0, 0, 0, 0) }

\* the constructor runs once, with the arguments drawn at the start
DoSteveDisplay ==
  /\ pc = "idle" /\ op = "none"
  /\ profile' = SteveDisplay(loc.h, loc.v, loc.pclk, loc.pclkpol, loc.swizzle)
  /\ op' = "SteveDisplay"
  /\ UNCHANGED <<pc, ret, loc, cs, txn, log, calls, mem, script, cmd_index, dl_index, err, ix, gh>>

\* Begin() of a driver that was given the constructed profile
DoDisplayBegin == op # "none" /\ DoBegin

InitDisplay ==
  /\ InitBus /\ InitDrv /\ InitGh /\ InitIx /\ InitMem(0, 0)
  /\ pc = "idle" /\ ret = 0 /\ op = "none"
  /\ script = SteadyScript
  /\ profile = DefaultProfile
  /\ \E h \in AxisArgs, v \in AxisArgs, pclk \in {7, 2}, pclkpol \in {0, 1} :
       loc = [h |-> h, v |-> v, pclk |-> pclk, pclkpol |-> pclkpol, swizzle |-> 0]

NextDisplay ==
  \/ DoSteveDisplay
  \/ DoDisplayBegin
  \/ BeginWaitId
  \/ BeginWaitCpuReset
  \/ BeginChipId
  \/ DoBeginStart
  \/ BeginEarlyInit
  \/ DoBeginPanel
  \/ BeginTouchInit
  \/ DoBeginFinish

SpecDisplay == InitDisplay /\ [][NextDisplay]_vars

\* the sum of the values in s, reduced modulo 2^16
RECURSIVE Sum16(_)
Sum16(s) == IF s = <<>> THEN 0 ELSE (Head(s) + Sum16(Tail(s))) % 65536

\* the timing fields of profile p are those the claim gives for the
\* constructor arguments a of the axis whose field names start with x
AxisFields(p, x, a) ==
  /\ p[x \o "size"]   = a.width
  /\ p[x \o "cycle"]  = Sum16(<<a.frontporch, a.syncwidth, a.backporch, a.width, a.padding>>)
  /\ p[x \o "offset"] = Sum16(<<a.frontporch, a.syncwidth, a.backporch>>)
  /\ p[x \o "sync0"]  = a.frontporch
  /\ p[x \o "sync1"]  = Sum16(<<a.frontporch, a.syncwidth>>)

\* C24: a SteveDisplay constructed from (width, frontporch, syncwidth,
\* backporch, padding) per axis has cycle = frontporch + syncwidth + backporch
\* + width + padding, offset = frontporch + syncwidth + backporch, sync0 =
\* frontporch, sync1 = frontporch + syncwidth, each modulo 2^16; for
\* 480/24/11/6/521 that is hcycle 1042, hoffset 41, hsync1 35; no step of the
\* driver changes the profile afterwards.
C24_DisplayTiming ==
  [][ /\ (op' = "SteveDisplay") =>
           /\ AxisFields(profile', "h", loc'.h) /\ AxisFields(profile', "v", loc'.v)
           /\ (loc'.h = Axis(480, 24, 11, 6, 521)) =>
                (profile'.hcycle = 1042 /\ profile'.hoffset = 41 /\ profile'.hsync1 = 35)
      /\ (op # "none") => (profile' = profile) ]_vars

\* Begin returned true for a constructed profile whose horizontal sums pass
\* 65535; the profile still holds the reduced values
C24_Witness ==
  /\ BeginReturned /\ ret = 1
  /\ profile.hsize = 40000 /\ profile.hcycle = 75002 - 65536 /\ profile.hoffset = 35000
  /\ profile.vcycle = 1042

-----------------------------------------------------------------------------
(* Begin and End called in any order (specification SpecPower)              *)

\* End()
DoEnd ==
  /\ pc = "idle"
  /\ Commit(End(Fresh))
  /\ op' = "End"
  /\ loc' = NoLoc
  /\ UNCHANGED <<pc, ret, cmd_index, dl_index, err, ix, gh, profile>>

InitPower ==
  /\ InitCtl /\ InitBus /\ InitDrv /\ InitGh /\ InitIx
  /\ \E wp \in {0, 4092} :
       mem = InitChipId @@ Put16(Put16(<<>>, REG_CMD_READ, 0), REG_CMD_WRITE, wp)
  /\ profile \in BeginProfiles
  /\ script = SteadyScript

NextPower ==
  \/ DoEnd
  \/ DoBegin
  \/ BeginWaitId
  \/ BeginWaitCpuReset
  \/ BeginChipId
  \/ DoBeginStart
  \/ BeginEarlyInit
  \/ DoBeginPanel
  \/ BeginTouchInit
  \/ DoBeginFinish

SpecPower == InitPower /\ [][NextPower]_vars

\* the name and the argument of each transport call in l
CallsOf(l) == [i \in 1 .. Len(l) |-> <<l[i][1], l[i][2]>>]

EndSequence ==
  << <<"Pause", 1>>, <<"Select", 0>>, <<"Delay", 20>>, <<"Power", 0>>, <<"Delay", 6>> >>

PowerCycle ==
  EndSequence \o << <<"Power", 1>>, <<"Delay", 21>>, <<"Select", 1>>, <<"Init", 1>> >>

\* C25: End performs Pause(true), Select(false), Delay(20), Power(false),
\* Delay(6) in this order and nothing else; Begin, called from any state
\* (never begun, running, failed, ended), starts with the calls of End, then
\* Power(true), Delay(21), Select(true), Init(slow), and transfers no byte
\* before them.
C25_PowerCycle ==
  [][ /\ (op' = "End") => (CallsOf(log') = EndSequence)
      /\ (pc = "idle" /\ pc' = "Begin_REG_ID") =>
           /\ Len(log') > Len(PowerCycle)
           /\ CallsOf(SubSeq(log', 1, Len(PowerCycle))) = PowerCycle
           /\ \E i \in Len(PowerCycle) + 1 .. Len(log') : IsTransfer(log'[i]) ]_vars

\* a second Begin was called while the chip was still selected by the first,
\* which had run to its end
C25_Witness ==
  /\ pc = "Begin_REG_ID" /\ gh.begins = 2 /\ loc.result = BEGIN_MAXTRIES
  /\ log[2] = Ev("Select", 0, 1)
  /\ CallsOf(SubSeq(log, 1, Len(PowerCycle))) = PowerCycle

\* the transport calls of a host command with the bytes b1, b2, b3
HostBytes(b1, b2, b3) ==
  << <<"Select", 0>>, <<"Select", 1>>, <<"Send8", b1>>, <<"Send8", b2>>, <<"Send8", b3>> >>

\* the transport calls of Begin after Init(slow), up to Init(fast)
ClockSequence(p) ==
  HostBytes((IF p.clkext THEN HOSTCMD_CLKEXT ELSE HOSTCMD_CLKINT) \div 65536, 0, 0)
  \o HostBytes(HOSTCMD_CLKSEL \div 65536, p.clksel, 0)
  \o HostBytes(HOSTCMD_ACTIVE \div 65536, 0, 0)
  \o << <<"Delay", 40>>, <<"Init", 0>> >>

\* C26: in Begin the host commands CLKEXT (external clock) or CLKINT, then
\* CLKSEL with the multiplier of the profile as its parameter byte, then
\* ACTIVE are sent in this order after Init(slow) and before Init(fast); a
\* delay of 40 ms separates ACTIVE from Init(fast); no memory read or write
\* is made before ACTIVE was sent.
C26_ClockCommands ==
  (op = "Begin") =>
    /\ Len(log) >= Len(PowerCycle) + Len(ClockSequence(profile))
    /\ CallsOf(SubSeq(log, Len(PowerCycle) + 1, Len(PowerCycle) + Len(ClockSequence(profile))))
         = ClockSequence(profile)
    /\ log[Len(PowerCycle)] = Ev("Init", 1, 0)
    /\ Len(calls) >= 3
    /\ \A j \in 1 .. 3 : calls[j][1] = "host"
    /\ \A j \in 1 .. Len(calls) :
         (calls[j][1] \in {"read", "write"}) =>
            (j > 3 /\ calls[j][3] > Len(PowerCycle) + Len(ClockSequence(profile)))

\* Begin of the profile with the external clock and the 6x multiplier has
\* sent its clock commands and waits for REG_ID
C26_Witness ==
  /\ pc = "Begin_REG_ID" /\ op = "Begin" /\ profile.clkext /\ profile.clksel = \h46
  /\ calls[2] = <<"host", HOSTCMD_CLKSEL + \h4600, 15>>

\* the 32-bit data of write j
Written32(j) ==
  LET at == calls[j][3] + 4
  IN  W32(log[at + 3][2] + 256 * log[at + 4][2], log[at + 1][2] + 256 * log[at + 2][2])

\* the writes of the current operation into the display-list memory
DLWrites ==
  { j \in 1 .. Len(calls) :
      calls[j][1] = "write" /\ calls[j][2] >= RAM_DL /\ calls[j][2] < RAM_DL + RAM_DL_SIZE }

\* a write of the current operation that starts in the command ring or at
\* REG_CMD_WRITE
IsCmdWrite(j) ==
  /\ calls[j][1] = "write"
  /\ \/ (calls[j][2] >= RAM_CMD /\ calls[j][2] < RAM_CMD + RAM_CMD_SIZE)
     \/ calls[j][2] \in REG_CMD_WRITE - 3 .. REG_CMD_WRITE + 1

\* C27: every Begin that returns true has written exactly the words
\* 0x02000000, 0x26000007, 0x00000000 at RAM_DL + 0, + 4, + 8 and nothing else
\* to the display list, followed at once by DLSWAP_FRAME to REG_DLSWAP;
\* dl_index is 12; Begin never writes to the command ring or to
\* REG_CMD_WRITE, and cmd_index is the value of REG_CMD_WRITE it read,
\* which the chip still holds.
C27_BootstrapList ==
  /\ (op = "Begin") => (\A j \in 1 .. Len(calls) : ~IsCmdWrite(j))
  /\ (BeginReturned /\ ret = 1) =>
       /\ \E j \in 1 .. Len(calls) - 3 :
            /\ DLWrites = {j, j + 1, j + 2}
            /\ IsWrite(j, RAM_DL)         /\ Written32(j)     = W32(\h0200, \h0000)
            /\ IsWrite(j + 1, RAM_DL + 4) /\ Written32(j + 1) = W32(\h2600, \h0007)
            /\ IsWrite(j + 2, RAM_DL + 8) /\ Written32(j + 2) = W32(0, 0)
            /\ IsWrite(j + 3, REG_DLSWAP) /\ Written32(j + 3) = W32(0, 2)
            /\ \A k \in j .. j + 3 : Len(log) >= calls[k][3] + 8
            /\ calls[j + 1][3] = calls[j][3] + 9
       /\ dl_index = 12
       /\ \E j \in 1 .. Len(calls) :
            /\ calls[j][1] = "read" /\ calls[j][2] = REG_CMD_WRITE
            /\ cmd_index = (log[calls[j][3] + 6][3] + 256 * log[calls[j][3] + 7][3]) % 4096
       /\ cmd_index = Mem16(mem, REG_CMD_WRITE) % 4096

\* Begin returned true on a chip whose write pointer stood at 4092
C27_Witness ==
  /\ BeginReturned /\ ret = 1 /\ cmd_index = 4092 /\ dl_index = 12
  /\ Cardinality(DLWrites) = 3

-----------------------------------------------------------------------------
(* The dl_name and cmd_name functions of the ENC macro (specification       *)
(* SpecEncAppend)                                                            *)

MaxEncAppends == 2  \* calls of dl_name / cmd_name in one run (SpecEncAppend)

\* the arguments of a call, converted to the parameter types of `name`
EncParams(name, args) ==
  [k \in 1 .. Len(EncTable[name].fields) |-> ParamConv(EncTable[name].fields[k][1], args[k])]

\* dl_name that hands the word to Cmd
DlEncAsCmd(w, di, name, params, int_bits, ub) ==
  Cmd(w, di, EncWord(name, params, int_bits, ub))

\* dl_name(params): DLAdd(ENC_name(params))
DlEnc(w, di, name, params, int_bits, ub) ==
  DLAdd(w, di, EncWord(name, params, int_bits, ub))

\* cmd_name(params): Cmd(ENC_name(params))
CmdEnc(w, ci, name, params, int_bits, ub) ==
  Cmd(w, ci, EncWord(name, params, int_bits, ub))

\* the end of a call of dl_name or cmd_name with the arguments held since
\* the initial state
EncAppendDone(name) ==
  /\ pc = "idle"
  /\ gh.ops < MaxEncAppends
  /\ op' = name
  /\ loc' = [name |-> loc.name, args |-> loc.args, int_bits |-> loc.int_bits, ub |-> loc.ub,
             cmd_index |-> cmd_index, dl_index |-> dl_index]
  /\ gh' = [gh EXCEPT !.ops = @ + 1]
  /\ UNCHANGED <<pc, err, ix, profile>>

DoDlEnc ==
  /\ EncAppendDone("dl_name")
  /\ Commit(DlEnc(Fresh, dl_index, loc.name, EncParams(loc.name, loc.args), loc.int_bits, loc.ub))
  /\ dl_index' = DLNext(dl_index)
  /\ ret' = DLNext(dl_index)
  /\ UNCHANGED cmd_index

DoCmdEnc ==
  /\ EncAppendDone("cmd_name")
  /\ Commit(CmdEnc(Fresh, cmd_index, loc.name, EncParams(loc.name, loc.args), loc.int_bits, loc.ub))
  /\ cmd_index' = CmdNext(cmd_index)
  /\ ret' = CmdNext(cmd_index)
  /\ UNCHANGED dl_index

NextEncAppend == DoDlEnc \/ DoCmdEnc

SpecEncAppend == InitEnc /\ [][NextEncAppend]_vars

\* C28: for every encoder `name` and all parameter values, dl_name(params)
\* writes exactly the word ENC_name(params) at RAM_DL + dl_index, advances
\* dl_index by 4 and leaves cmd_index unchanged; cmd_name(params) writes
\* exactly the same word at RAM_CMD + cmd_index, advances cmd_index by 4 and
\* leaves dl_index unchanged.
C28_DlCmdSameWord ==
  LET word == EncWord(loc.name, EncParams(loc.name, loc.args), loc.int_bits, loc.ub)
  IN  /\ (op = "dl_name") =>
           /\ IsWrite32(log, calls, RAM_DL + loc.dl_index, word)
           /\ dl_index = (loc.dl_index + 4) % 8192 /\ ret = dl_index
           /\ cmd_index = loc.cmd_index
      /\ (op = "cmd_name") =>
           /\ IsWrite32(log, calls, RAM_CMD + loc.cmd_index, word)
           /\ cmd_index = (loc.cmd_index + 4) % 4096 /\ ret = cmd_index
           /\ dl_index = loc.dl_index

\* cmd_VERTEX2II was called after dl_VERTEX2II with the same arguments: the
\* last four bytes sent are again those of the word
C28_Witness ==
  /\ op = "cmd_name" /\ gh.ops = 2 /\ loc.name = "VERTEX2II"
  /\ loc.dl_index = 4 /\ loc.cmd_index = 0 /\ cmd_index = 4
  /\ loc.args = <<W32(\hA5A5, \hA5A5), W32(\hFFFF, \hFFFF), W32(\hA5A5, \hA5A5), W32(\hFFFF, \hFFFF)>>

-----------------------------------------------------------------------------
(* Synchronising the write index at any time, with the co-processor halted  *)
(* (specification SpecSync)                                                  *)

\* values of REG_CMD_READ: ring offsets and the fault value
SyncReads  == {0, 8, 4092, READ_INDEX_ERROR}

\* values of REG_CMD_WRITE: ring offsets, the fault value, and a value with
\* bit 12 set
SyncWrites == {0, 4092, READ_INDEX_ERROR, 4104}

InitSync ==
  /\ InitCtl /\ InitBus /\ InitDrv /\ InitGh /\ InitIx
  /\ script = SteadyScript /\ profile = DefaultProfile
  /\ \E rp \in SyncReads, wp \in SyncWrites : InitMem(rp, wp)

NextSync ==
  \/ DoCmdInitWriteIndex
  \/ DoCmd(ENC_CMD_DLSTART, MaxCmds)
  \/ \E pError \in BOOLEAN : DoCmdIsBusy(pError)
  \/ \E pError \in BOOLEAN : DoCmdExecute(FALSE, pError)

SpecSync == InitSync /\ [][NextSync]_vars

\* C29: CmdInitWriteIndex makes exactly one 16-bit read of REG_CMD_WRITE and
\* no write to the chip; it sets the write index to the value read modulo
\* 4096, whatever was appended locally before, and returns it; a CmdIsBusy
\* that follows it returns false if and only if REG_CMD_READ holds that value
\* or 0x0FFF.
C29_InitWriteIndex ==
  [][ /\ DoCmdInitWriteIndex =>
           /\ OneRead16(log', calls', REG_CMD_WRITE)
           /\ mem' = mem
           /\ cmd_index' = WP % 4096 /\ ret' = cmd_index'
           /\ dl_index' = dl_index
      /\ (op = "CmdInitWriteIndex" /\ \E pError \in BOOLEAN : DoCmdIsBusy(pError)) =>
           (ret' = 0 <=> (RP = WP % 4096 \/ RP = \h0FFF)) ]_vars

\* two words were appended and not published, the index was synchronised
\* again to a register value of 4104, and CmdIsBusy then found the read
\* pointer at the same offset
C29_Witness ==
  /\ op = "CmdIsBusy" /\ ret = 0 /\ gh.total = 2 /\ gh.appended = 0 /\ gh.synced
  /\ WP = 4104 /\ RP = 8 /\ cmd_index = 8

-----------------------------------------------------------------------------
(* Register writes followed by register reads (specification SpecEndian)    *)

MaxEndianOps == 2   \* calls of RegWrite16/32 and RegRead16/32 in one run (SpecEndian)

\* an address in general RAM and a register; the chip stores what is written
\* to either
EndianAddresses == {\h012345, REG_GPIOX}

EndianValues == {W32(\h1234, \h5678), W32(\h00FF, \h8001)}

\* a value cut to `bits` bits
CutTo(bits, value) == IF bits = 16 THEN W32(0, value.lo) ELSE value

\* the end of a call of `name`
EndianDone(name, bits, address22, value) ==
  /\ pc = "idle"
  /\ gh.ops < MaxEndianOps
  /\ op' = name
  /\ loc' = [bits |-> bits, address22 |-> address22, value |-> value,
             before |-> [op |-> op, bits |-> loc.bits, address22 |-> loc.address22,
                         value |-> loc.value]]
  /\ gh' = [gh EXCEPT !.ops = @ + 1]
  /\ UNCHANGED <<pc, cmd_index, dl_index, err, ix, profile>>

\* RegWrite16(address22, value) / RegWrite32(address22, value)
DoEndianWrite(bits, address22, value) ==
  /\ EndianDone("RegWrite", bits, address22, CutTo(bits, value))
  /\ Commit(IF bits = 16 THEN RegWrite16(Fresh, address22, value.lo)
            ELSE RegWrite32(Fresh, address22, value))
  /\ UNCHANGED ret

\* RegRead16(address22) / RegRead32(address22); ret is the value returned
DoEndianRead(bits, address22) ==
  /\ EndianDone("RegRead", bits, address22, W32(0, 0))
  /\ LET w == IF bits = 16 THEN RegRead16(Fresh, address22) ELSE RegRead32(Fresh, address22)
     IN  /\ Commit(w)
         /\ ret' = IF bits = 16 THEN W32(0, w.rx) ELSE w.rx

InitEndian ==
  /\ InitBus /\ InitDrv /\ InitGh /\ InitIx /\ InitMem(0, 0)
  /\ pc = "idle" /\ ret = 0 /\ op = "none"
  /\ script = SteadyScript /\ profile = DefaultProfile
  /\ loc = [bits |-> 0, address22 |-> 0, value |-> W32(0, 0),
            before |-> [op |-> "none", bits |-> 0, address22 |-> 0, value |-> W32(0, 0)]]

NextEndian ==
  \/ \E bits \in {16, 32}, address22 \in EndianAddresses, value \in EndianValues :
       DoEndianWrite(bits, address22, value)
  \/ \E bits \in {16, 32}, address22 \in EndianAddresses : DoEndianRead(bits, address22)

SpecEndian == InitEndian /\ [][NextEndian]_vars

\* the bytes of the first n bits of value, least significant first
BytesLE(value, n) ==
  SubSeq(<<value.lo % 256, value.lo \div 256, value.hi % 256, value.hi \div 256>>, 1, n \div 8)

\* the three bytes of a header word, most significant first
BytesBE3(word) == <<word \div 65536, (word \div 256) % 256, word % 256>>

\* what the transfers in l sent, and what they received
SentBytes(l)     == [i \in 1 .. Len(l) |-> l[i][2]]
ReceivedBytes(l) == [i \in 1 .. Len(l) |-> l[i][3]]

\* C30: RegWrite16/32 send, after the three header bytes of 0x800000 | addr
\* most significant first, the bytes of the value least significant first;
\* RegRead16/32 send the three bytes of addr most significant first and a
\* dummy byte, and return the bytes received assembled least significant
\* first; a RegRead16/32 that follows a RegWrite16/32 of the same width at the
\* same address returns the value written.
C30_LittleEndianData ==
  /\ (op = "RegWrite") =>
       /\ Len(log) = 5 + loc.bits \div 8
       /\ \A i \in 3 .. Len(log) : IsSend(log[i])
       /\ SentBytes(SubSeq(log, 3, Len(log)))
            = BytesBE3(8388608 + loc.address22) \o BytesLE(loc.value, loc.bits)
  /\ (op = "RegRead") =>
       /\ Len(log) = 6 + loc.bits \div 8
       /\ \A i \in 3 .. 6 : IsSend(log[i])
       /\ SentBytes(SubSeq(log, 3, 6)) = BytesBE3(loc.address22) \o <<0>>
       /\ \A i \in 7 .. Len(log) : IsRecv(log[i])
       /\ ReceivedBytes(SubSeq(log, 7, Len(log))) = BytesLE(ret, loc.bits)
       /\ (loc.bits = 16) => (ret.hi = 0)
       /\ (/\ loc.before.op = "RegWrite" /\ loc.before.bits = loc.bits
           /\ loc.before.address22 = loc.address22) =>
            (ret = loc.before.value)

\* RegRead32 returned the 0x12345678 that RegWrite32 had stored in general RAM
C30_Witness ==
  /\ op = "RegRead" /\ loc.bits = 32 /\ loc.address22 = \h012345
  /\ loc.before.op = "RegWrite" /\ loc.before.bits = 32 /\ loc.before.address22 = \h012345
  /\ ret = W32(\h1234, \h5678)
  /\ ReceivedBytes(SubSeq(log, 7, 10)) = <<\h78, \h56, \h34, \h12>>

-----------------------------------------------------------------------------
(* The field encoder N on its own (specification SpecField)                 *)

WordBits == 32      \* bits in the uint32_t the fields are encoded in

FieldValues == {W32(\hFFFF, \hFFFF), W32(\hA5A5, \h5A5A), W32(0, 1)}

\* N(value, leftbit, rightbit) with the arguments the initial state holds
DoN ==
  /\ pc = "idle" /\ op = "none"
  /\ loc' = [loc EXCEPT !.result = NField(loc.value, loc.leftbit, loc.rightbit,
                                          loc.int_bits, loc.ub)]
  /\ op' = "N"
  /\ UNCHANGED <<pc, ret, cs, txn, log, calls, mem, script, cmd_index, dl_index, err, ix, gh, profile>>

\* a value, a field of 1 to 32 bits, and the build
InitField ==
  /\ pc = "idle" /\ ret = 0 /\ op = "none"
  /\ InitBus /\ InitDrv /\ InitGh /\ InitIx /\ InitMem(0, 0)
  /\ script = SteadyScript /\ profile = DefaultProfile
  /\ \E value \in FieldValues, leftbit \in 0 .. WordBits - 1, int_bits \in IntWidths,
        ub \in ShiftOutcomes :
       \E rightbit \in 0 .. leftbit :
         loc = [value |-> value, leftbit |-> leftbit, rightbit |-> rightbit,
                int_bits |-> int_bits, ub |-> ub, result |-> W32(0, 0)]

NextField == DoN

SpecField == InitField /\ [][NextField]_vars

\* C31: N(value, leftbit, rightbit) is (value mod 2^w) * 2^rightbit with
\* w = leftbit - rightbit + 1, for every field of 1 to 32 bits; in particular
\* N(value, 31, 0) = value.
C31_FieldEncoder ==
  (op = "N") =>
    LET w == (loc.leftbit - loc.rightbit) + 1
    IN  /\ loc.result = W32Shl(W32And(loc.value, MaskBits(w)), loc.rightbit)
        /\ (w = WordBits) => (loc.result = loc.value)

\* the same, for the fields narrower than int only
C31_NarrowFields ==
  (op = "N" /\ (loc.leftbit - loc.rightbit) + 1 < loc.int_bits) =>
    loc.result = W32Shl(W32And(loc.value, MaskBits((loc.leftbit - loc.rightbit) + 1)),
                        loc.rightbit)

\* N(0xA5A55A5A, 31, 0) came out as 0 in a build with a 32-bit int that takes
\* the shift count modulo 32
C31_FullWordLost ==
  /\ op = "N" /\ loc.leftbit = 31 /\ loc.rightbit = 0 /\ loc.int_bits = 32
  /\ loc.value = W32(\hA5A5, \h5A5A) /\ loc.result = W32(0, 0)

-----------------------------------------------------------------------------
(* Select in the two transports (specification SpecSelect)                  *)

MaxSelectOps == 4   \* calls of Select and Send8 in one run (SpecSelect)

Transports == {"Arduino", "MPSSE"}

\* SteveHAL_Windows_MPSSE::Select: SPI_ToggleCS(_ftHandle, !!enable), then
\* return true; the chip starts a transaction when the line goes low
SelectMPSSE(w, enable) ==
  [w EXCEPT !.cs  = enable,
            !.txn = IF enable /\ ~w.cs THEN <<>> ELSE @,
            !.log = Append(@, Ev("Select", B2N(enable), 1))]

\* Select of the transport hal
HalSelect(hal, w, enable) ==
  IF hal = "Arduino" THEN Select(w, enable) ELSE SelectMPSSE(w, enable)

\* the end of a call on the transport
SelectDone(name, enable, w) ==
  /\ pc = "idle"
  /\ gh.ops < MaxSelectOps
  /\ op' = name
  /\ loc' = [hal |-> loc.hal, enable |-> enable, before |-> cs,
             result |-> (name = "Select" /\ w.log[1][3] = 1)]
  /\ Commit(w)
  /\ gh' = [gh EXCEPT !.ops = @ + 1]
  /\ UNCHANGED <<pc, ret, cmd_index, dl_index, err, ix, profile>>

\* Select(enable)
DoSelect(enable) == SelectDone("Select", enable, HalSelect(loc.hal, Fresh, enable))

\* Send8(value)
DoSend8(value) == SelectDone("Send8", FALSE, Send8(Fresh, value))

InitSelect ==
  /\ InitBus /\ InitDrv /\ InitGh /\ InitIx /\ InitMem(0, 0)
  /\ pc = "idle" /\ ret = 0 /\ op = "none"
  /\ script = SteadyScript /\ profile = DefaultProfile
  /\ \E hal \in Transports :
       loc = [hal |-> hal, enable |-> FALSE, before |-> FALSE, result |-> FALSE]

NextSelect ==
  \/ \E enable \in BOOLEAN : DoSelect(enable)
  \/ \E value \in {\h80, \h5A} : DoSend8(value)

SpecSelect == InitSelect /\ [][NextSelect]_vars

\* C32: in every transport, Select(enable) returns true exactly when the call
\* changed the state of the chip-select line.
C32_SelectReportsChange ==
  (op = "Select") => (loc.result <=> (cs # loc.before))

\* the same for the Arduino transport alone
C32_ArduinoSelect ==
  (op = "Select" /\ loc.hal = "Arduino") => (loc.result <=> (cs # loc.before))

\* the MPSSE transport returned true for a Select(true) on a selected chip
C32_RepeatReturnsTrue ==
  /\ op = "Select" /\ loc.hal = "MPSSE" /\ loc.enable /\ loc.before /\ cs
  /\ loc.result

-----------------------------------------------------------------------------
(* The free space for any pair of pointers (specification SpecSpace)        *)

MaxSpaceCmds == 2   \* commands appended to the ring in one run (SpecSpace)

\* values of REG_CMD_READ: ring offsets, an offset that is not a multiple
\* of 4, and the fault value
SpaceReads  == {0, 4, 6, 4088, 4092, READ_INDEX_ERROR}

\* values of REG_CMD_WRITE, one of them not a multiple of 4
SpaceWrites == {0, 2, 4088, 4092}

InitSpace ==
  /\ InitCtl /\ InitBus /\ InitDrv /\ InitGh /\ InitIx
  /\ script = SteadyScript /\ profile = DefaultProfile
  /\ \E rp \in SpaceReads, wp \in SpaceWrites : InitMem(rp, wp)

NextSpace ==
  \/ DoCmdInitWriteIndex
  \/ DoCmd(ENC_CMD_DLSTART, MaxSpaceCmds)
  \/ DoCmdGetFreeCmdSpace
  \/ ChipFault

SpecSpace == InitSpace /\ [][NextSpace]_vars

\* C33: CmdGetFreeCmdSpace returns a value in [0, RAM_CMD_SIZE - 4] for every
\* write index and every value of the read pointer register, the fault
\* value 0x0FFF and indexes that are not multiples of 4 included.
C33_FreeSpaceInRange ==
  (op = "CmdGetFreeCmdSpace" /\ pc = "idle") => (ret \in 0 .. (RAM_CMD_SIZE - 4))

\* the same, for a read pointer that is a multiple of 4 and an index that is
\* one too
C33_AlignedInRange ==
  (op = "CmdGetFreeCmdSpace" /\ pc = "idle" /\ RP % 4 = 0 /\ cmd_index % 4 = 0) =>
    (ret \in 0 .. (RAM_CMD_SIZE - 4))

\* write index 4092 and the fault value in REG_CMD_READ: 65535 bytes free
C33_FaultUnderflows ==
  /\ op = "CmdGetFreeCmdSpace" /\ pc = "idle"
  /\ cmd_index = 4092 /\ RP = READ_INDEX_ERROR /\ ret = 65535

-----------------------------------------------------------------------------
(* Appends guarded by the free space (specification SpecGuarded)            *)

MaxGuardedCmds == 3  \* records appended to the ring in one run (SpecGuarded)
MaxConsumes    == 3  \* steps of the co-processor in one run (SpecGuarded)

\* bytes the chip has not consumed when the driver is attached
GuardedBacklogs == {0, 4076, 4084, 4088, 4092}

\* the caller appends a record of `bytes` bytes only after CmdGetFreeCmdSpace
\* has returned at least that many
DoGuardedCmd ==
  /\ gh.synced /\ op = "CmdGetFreeCmdSpace" /\ ret >= 4
  /\ DoCmd(ENC_CMD_DLSTART, MaxGuardedCmds)

DoGuardedRecord ==
  /\ gh.synced /\ op = "CmdGetFreeCmdSpace" /\ ret >= 12
  /\ DoCmdRecord("SPINNER", MaxGuardedCmds)

\* the co-processor consumes 4 or 12 bytes, or all that are published
ChipConsume ==
  /\ RP # WP /\ gh.ops < MaxConsumes
  /\ \E n \in {4, 12, (WP - RP) % RAM_CMD_SIZE} :
       /\ n <= (WP - RP) % RAM_CMD_SIZE
       /\ mem' = Put16(mem, REG_CMD_READ, (RP + n) % RAM_CMD_SIZE)
  /\ gh' = [gh EXCEPT !.ops = @ + 1]
  /\ UNCHANGED <<pc, ret, op, loc, cs, txn, log, calls, script, cmd_index, dl_index, err, ix, profile>>

InitGuarded ==
  /\ InitCtl /\ InitBus /\ InitDrv /\ InitGh /\ InitIx
  /\ script = SteadyScript /\ profile = DefaultProfile
  /\ \E wp \in RingStarts, backlog \in GuardedBacklogs :
       InitMem((wp + RAM_CMD_SIZE - backlog) % RAM_CMD_SIZE, wp)

NextGuarded ==
  \/ (gh.total = 0 /\ DoCmdInitWriteIndex)
  \/ (gh.synced /\ DoCmdGetFreeCmdSpace)
  \/ DoGuardedCmd
  \/ DoGuardedRecord
  \/ (gh.synced /\ DoCmdExecute(FALSE, FALSE))
  \/ ChipConsume

SpecGuarded == InitGuarded /\ [][NextGuarded]_vars

\* bytes between the read pointer rp and the write index ci
Unconsumed(ci, rp) == (ci + RAM_CMD_SIZE - rp) % RAM_CMD_SIZE

\* C34: with appends guarded by CmdGetFreeCmdSpace, indices that are multiples
\* of 4 and a read pointer that only moves towards the published write
\* pointer, the unconsumed bytes never exceed RAM_CMD_SIZE - 4: an append adds
\* its length to them without passing the read pointer, so the write index
\* does not land on the read pointer (a full ring is not taken for an empty
\* one), and the published write pointer is never ahead of the write index.
C34_GuardedRing ==
  [][ /\ (gh'.synced) =>
           /\ cmd_index' % 4 = 0 /\ RP' % 4 = 0
           /\ Unconsumed(cmd_index', RP') <= RAM_CMD_SIZE - 4
           /\ Unconsumed(WP', RP') <= Unconsumed(cmd_index', RP')
      /\ (gh'.total = gh.total + 1) =>
           /\ Unconsumed(cmd_index', RP') = Unconsumed(cmd_index, RP) + (gh'.appended - gh.appended)
           /\ cmd_index' # RP' ]_vars

\* an append took the last free bytes: 4092 bytes wait for the co-processor
C34_Witness ==
  /\ op \in {"Cmd", "cmd_"} /\ gh.total >= 1
  /\ Unconsumed(cmd_index, RP) = RAM_CMD_SIZE - 4

-----------------------------------------------------------------------------
(* The write index and the bytes transmitted (specification SpecCount)      *)

\* buffer lengths around the largest int16_t and the largest uint16_t
BulkLens == {32766, 32767, 32768, 32770, 65535, 65537, 70001}

\* the cmd_ functions that send a buffer
BulkNames == { name \in DOMAIN CmdProtos : HasTag(CmdProtos[name].shape, "MM") }

\* the fields of a call whose buffer has len bytes
BulkFields(shape, len) ==
  LET a == [v |-> \h0180, nulls |-> {}, message |-> [null |-> TRUE, chars |-> <<>>],
            maxlen |-> 0, int_bits |-> 16, data |-> <<>>]
      f == ProtoFields(shape, 1, a)
  IN  [i \in 1 .. Len(f) |-> IF f[i][1] = "MM" THEN <<"MMn", len>> ELSE f[i]]

\* cmd_NAME(..., num, data) with a buffer of len bytes
DoCmdBulk(name, len) ==
  /\ pc = "idle"
  /\ gh.total < MaxRecords
  /\ LET p == CmdProtos[name]
         r == CmdRecord(Fresh, cmd_index, W32(\hFFFF, \hFF00 + p.code), BulkFields(p.shape, len))
     IN  /\ Commit(r.w)
         /\ cmd_index' = r.index
         /\ ret' = r.index
         /\ gh' = [gh EXCEPT !.appended = @ + r.bytes, !.total = @ + 1]
         /\ loc' = [name |-> name, shape |-> p.shape, len |-> len, before |-> cmd_index]
  /\ op' = "cmd_bulk"
  /\ UNCHANGED <<pc, dl_index, err, ix, profile>>

\* the calls with every combination of arguments are the first append of a
\* run; Cmd and the calls with long buffers follow any append
NextCount ==
  \/ (gh.total = 0 /\ DoCmdInitWriteIndex)
  \/ DoCmd(ENC_CMD_DLSTART, MaxRecords)
  \/ \E name \in DOMAIN CmdProtos : \E a \in CallArgs(CmdProtos[name].shape) :
       gh.total = 0 /\ DoCmdCall(name, a)
  \/ \E name \in BulkNames, len \in BulkLens : DoCmdBulk(name, len)

SpecCount == InitRing /\ [][NextCount]_vars

\* the bytes transmitted by the transport calls of l
RECURSIVE BytesSent(_)
BytesSent(l) ==
  IF l = <<>> THEN 0
  ELSE (CASE Head(l)[1] = "Send8"      -> 1
          [] Head(l)[1] = "SendBuffer" -> Head(l)[2]
          [] OTHER                     -> 0) + BytesSent(Tail(l))

\* C35: Cmd and every cmd_ function advance the write index by the number of
\* bytes transmitted after the three header bytes of their write transaction
\* into the command ring, modulo RAM_CMD_SIZE, whatever the record holds
\* (strings, buffers, padding, output slots), also for buffers of more than
\* 32767 bytes; so after any sequence of them the index is the synchronised
\* value plus all the bytes transmitted, modulo RAM_CMD_SIZE.
C35_IndexCountsBytes ==
  [][ (gh'.total = gh.total + 1) =>
        /\ Len(calls') = 1 /\ calls'[1][1] = "write"
        /\ calls'[1][2] = RAM_CMD + cmd_index
        /\ cmd_index' = (cmd_index + (BytesSent(log') - 3)) % RAM_CMD_SIZE ]_vars

\* cmd_INFLATE with a buffer of 32770 bytes at the end of the ring: 32780
\* bytes were transmitted, and the index moved from 4092 to 8
C35_Witness ==
  /\ op = "cmd_bulk" /\ loc.name = "INFLATE" /\ loc.len = 32770 /\ loc.before = 4092
  /\ BytesSent(log) - 3 = 32780
  /\ cmd_index = 8

-----------------------------------------------------------------------------
(* The chip select between operations (specification SpecOpen)              *)

MaxOpenOps == 2     \* transactions, appends and calls of Begin in one run (SpecOpen)

\* the run has operations left
OpenMore == gh.ops + gh.total + gh.begins < MaxOpenOps

\* Pause(pause)
DoPause(pause) ==
  /\ pc = "idle"
  /\ Commit(Pause(Fresh, pause))
  /\ op' = "Pause"
  /\ loc' = [pause |-> pause]
  /\ UNCHANGED <<pc, ret, cmd_index, dl_index, err, ix, gh, profile>>

\* the co-processor consumes all that is published
ChipFinish ==
  /\ RP # WP
  /\ mem' = Put16(mem, REG_CMD_READ, WP)
  /\ UNCHANGED <<pc, ret, op, loc, cs, txn, log, calls, script, cmd_index, dl_index, err, ix, gh, profile>>

NextOpen ==
  \/ \E bits \in {8, 32} : OpenMore /\ DoRegRead(bits, REG_GPIOX)
  \/ (OpenMore /\ DoRegWrite(16, REG_GPIOX, \hA55A))
  \/ (OpenMore /\ DoRegReadBuffer(0, 3))
  \/ (OpenMore /\ DoRegWriteBuffer(0, <<\h11>>))
  \/ (OpenMore /\ DoDLAdd(ENC_CLEAR(1, 1, 1)))
  \/ DoRegWait8(REG_ID, \h7C, 2, 1)
  \/ (OpenMore /\ DoCmd(ENC_CMD_DLSTART, MaxCmds))
  \/ (OpenMore /\ DoCmdRecord("GETPTR", MaxCmds))
  \/ \E waituntilcomplete \in BOOLEAN : DoCmdExecute(waituntilcomplete, FALSE)
  \/ WaitPoll
  \/ ChipFinish
  \/ DoPause(TRUE)
  \/ DoEnd
  \/ (OpenMore /\ DoBegin)
  \/ BeginWaitId
  \/ BeginWaitCpuReset
  \/ BeginChipId
  \/ DoBeginStart
  \/ BeginEarlyInit
  \/ DoBeginPanel
  \/ BeginTouchInit
  \/ DoBeginFinish

SpecOpen == InitPower /\ [][NextOpen]_vars

\* the operations that make transactions
OpenOps == {"RegRead", "RegWrite", "RegReadBuffer", "RegWriteBuffer", "DLAdd", "RegWait8",
            "Cmd", "cmd_", "CmdExecute"}

C36_WitnessBegin ==
  /\ pc = "idle" /\ op = "Begin" /\ ret = 1 /\ cs

-----------------------------------------------------------------------------
(* Begin that returns false (checked under SpecBegin)                        *)

\* the 16-bit value received by read transaction j
Read16Value(j) ==
  LET at == calls[j][3] + 5
  IN  log[at + 1][3] + 256 * log[at + 2][3]

\* write j to REG_GPIOX follows a read of REG_GPIOX and leaves bit 15 as read
KeepsPanelEnable(j) ==
  /\ j > 1 /\ calls[j - 1][1] = "read" /\ calls[j - 1][2] = REG_GPIOX
  /\ (Written16(j) >= 32768) <=> (Read16Value(j - 1) >= 32768)

\* C37: a Begin that returns false has written no value other than 0 to
\* REG_PCLK, has not written REG_DLSWAP, has not written a nonzero backlight
\* duty, and has not set bit 15 of REG_GPIOX (its only write to that register
\* writes bit 15 back as it was read); nor has a write that starts below one
\* of these registers reached into it.
C37_FailedBeginDark ==
  (BeginReturned /\ ret = 0) =>
    \A j \in 1 .. Len(calls) :
      /\ IsWrite(j, REG_PCLK) => Written8(j) = 0
      /\ ~IsWrite(j, REG_DLSWAP)
      /\ IsWrite(j, REG_PWM_DUTY) => Written8(j) = 0
      /\ IsWrite(j, REG_GPIOX) => KeepsPanelEnable(j)
      /\ (calls[j][1] = "write") =>
           calls[j][2] \notin {REG_PCLK - 3, REG_PCLK - 2, REG_PCLK - 1,
                               REG_DLSWAP - 3, REG_DLSWAP - 2, REG_DLSWAP - 1,
                               REG_PWM_DUTY - 3, REG_PWM_DUTY - 2, REG_PWM_DUTY - 1,
                               REG_GPIOX - 3, REG_GPIOX - 2, REG_GPIOX - 1, REG_GPIOX + 1}

\* TouchInit returned false after the panel registers were written: the
\* pixel clock and the backlight are at 0
C37_Witness ==
  /\ BeginReturned /\ ret = 0 /\ loc.failed = "Begin_TouchInit"
  /\ \E j \in 1 .. Len(calls) : IsWrite(j, REG_PCLK) /\ Written8(j) = 0
  /\ \E j \in 1 .. Len(calls) : IsWrite(j, REG_PWM_DUTY) /\ Written8(j) = 0
  /\ \E j \in 1 .. Len(calls) : IsWrite(j, REG_GPIOX) /\ KeepsPanelEnable(j)

-----------------------------------------------------------------------------
(* The opcode bits of the encoded words (checked under SpecEnc)              *)

\* bits 31..24 of a word
TopByte(word) == word.hi \div 256

\* the opcode of ENC_name can be read back from the word
OpcodeKept(name, word) ==
  CASE name = "VERTEX2F"  -> TopByte(word) \div 64 = 1
    [] name = "VERTEX2II" -> TopByte(word) \div 64 = 2
    [] OTHER              -> TopByte(word) = EncTable[name].op

\* C38: for every display-list encoder and all parameter values, bits 31..24
\* of the encoded word are the opcode byte (bits 31..30 are 01 for VERTEX2F
\* and 10 for VERTEX2II): no parameter value alters the opcode bits.
C38_OpcodeKept ==
  (op = "ENC" /\ pc = "idle") => OpcodeKept(loc.name, loc.word)

\* the same, in the builds where int has 32 bits
C38_OpcodeKeptInt32 ==
  (op = "ENC" /\ pc = "idle" /\ loc.int_bits = 32) => OpcodeKept(loc.name, loc.word)

\* ENC_CLEAR_COLOR(0xFFFFFFFF) came out as 0xFFFFFFFF where int has 16 bits
\* and 1 << 24 is 0
C38_OpcodeLost ==
  /\ op = "ENC" /\ pc = "idle" /\ loc.name = "CLEAR_COLOR" /\ loc.int_bits = 16
  /\ loc.params = <<W32(\hFFFF, \hFFFF)>>
  /\ loc.word = W32(\hFFFF, \hFFFF)

-----------------------------------------------------------------------------
(* CmdGetPtr, one step at a time, next to a co-processor that answers or     *)
(* faults (specification SpecGetPtr)                                         *)

\* polls of one wait loop and calls of CmdGetPtr followed in a run
MaxGetPtrPolls == 3
MaxGetPtrs == 2

\* what the co-processor leaves in an output slot; the first is also what the
\* slot holds after the host has cleared it
SlotValues == {ToW32(0), W32(\h000F, \h4240)}

\* the ring pointers <<read, write>> when the driver is constructed: the
\* co-processor idle, or still working on the last command
GetPtrStarts == {<<0, 0>>, <<4092, 4092>>, <<4088, 4092>>}

Put32(m, addr, word) == Put16(Put16(m, addr, word.lo), addr + 2, word.hi)

\* CmdGetPtr publishing without waiting for the co-processor
CmdGetPtrExecuteNoWait == FALSE

\* the argument waituntilcomplete of the CmdExecute call of CmdGetPtr
CmdGetPtrExecuteWaits == TRUE

\* entry of CmdGetPtr
DoCmdGetPtr ==
  /\ pc = "idle"
  /\ gh.ops < MaxGetPtrs
  /\ pc' = "CmdGetPtr_wait1"
  /\ op' = "CmdGetPtr"
  /\ loc' = [before |-> cmd_index, p |-> -1, polls |-> 0]
  /\ log' = <<>> /\ calls' = <<>>
  /\ gh' = [gh EXCEPT !.ops = @ + 1]
  /\ UNCHANGED <<ret, cs, txn, mem, script, cmd_index, dl_index, err, ix, profile>>

\* one evaluation of the loop condition of a CmdWaitComplete(NULL) inside
\* CmdGetPtr; `at` is the wait, `next` the step behind it
GetPtrPoll(at, next) ==
  /\ pc = at
  /\ loc.polls < MaxGetPtrPolls
  /\ LET w == CmdIsBusy(World)
         r == CmdBusyResult(w.rx, cmd_index)
     IN  /\ Commit(w)
         /\ IF r.busy
            THEN pc' = pc /\ loc' = [loc EXCEPT !.polls = @ + 1]
            ELSE pc' = next /\ loc' = [loc EXCEPT !.polls = 0]
  /\ UNCHANGED <<ret, op, cmd_index, dl_index, err, ix, gh, profile>>

\* CmdIndex p; cmd_GETPTR(&p); and the register write of CmdExecute(true)
GetPtrAppend ==
  /\ pc = "CmdGetPtr_append"
  /\ LET r == CmdRecord(World, cmd_index, CmdTable.GETPTR.command, CmdTable.GETPTR.fields)
     IN  /\ Commit(CmdExecuteWrite(r.w, r.index))
         /\ cmd_index' = r.index
         /\ loc' = [loc EXCEPT !.p = r.outs[1]]
         /\ gh' = [gh EXCEPT !.appended = @ + r.bytes, !.total = @ + 1]
  /\ pc' = IF CmdGetPtrExecuteWaits THEN "CmdGetPtr_wait2" ELSE "CmdGetPtr_read"
  /\ UNCHANGED <<ret, op, dl_index, err, ix, profile>>

\* result = CmdRead32(p); return result;
GetPtrRead ==
  /\ pc = "CmdGetPtr_read"
  /\ LET w == RegRead32(World, RAM_CMD + loc.p)
     IN  /\ Commit(w)
         /\ ret' = w.rx
  /\ pc' = "idle"
  /\ UNCHANGED <<op, loc, cmd_index, dl_index, err, ix, gh, profile>>

\* the co-processor executes what was published; a GETPTR that is waited for
\* gets its answer stored in its slot
ChipAnswer ==
  /\ RP # WP /\ RP # READ_INDEX_ERROR
  /\ \E v \in SlotValues :
       mem' = Put16(IF pc = "CmdGetPtr_wait2" THEN Put32(mem, RAM_CMD + loc.p, v) ELSE mem,
                    REG_CMD_READ, WP)
  /\ UNCHANGED <<pc, ret, op, loc, cs, txn, log, calls, script, cmd_index, dl_index, err, ix, gh, profile>>

\* the ring holds what earlier commands left in it
InitGetPtr ==
  /\ InitCtl /\ InitBus /\ InitDrv /\ InitGh /\ InitIx
  /\ script = SteadyScript /\ profile = DefaultProfile
  /\ \E s \in GetPtrStarts, v \in SlotValues :
       mem = Put32(Put32(Put16(Put16(<<>>, REG_CMD_READ, s[1]), REG_CMD_WRITE, s[2]),
                         RAM_CMD, v), RAM_CMD + 4, v)

NextGetPtr ==
  \/ (gh.total = 0 /\ gh.ops = 0 /\ DoCmdInitWriteIndex)
  \/ DoCmdGetPtr
  \/ GetPtrPoll("CmdGetPtr_wait1", "CmdGetPtr_append")
  \/ GetPtrAppend
  \/ GetPtrPoll("CmdGetPtr_wait2", "CmdGetPtr_read")
  \/ GetPtrRead
  \/ ChipAnswer
  \/ ChipFault

SpecGetPtr == InitGetPtr /\ [][NextGetPtr]_vars

\* transaction k is a read of REG_CMD_READ
IsRingPoll(k) == calls[k][1] = "read" /\ calls[k][2] = REG_CMD_READ

\* transaction j wrote the GETPTR record: the command word, then a slot of
\* four zero bytes
IsGetPtrRecord(j) ==
  LET at == calls[j][3] + 4
      bytes == <<\h23, \hFF, \hFF, \hFF, 0, 0, 0, 0>>
  IN  /\ Len(log) >= at + 9
      /\ \A k \in 1 .. 8 : log[at + k] = Ev("Send8", bytes[k], 0)
      /\ log[at + 9][1] = "Select"

\* C39: a CmdGetPtr that returned has polled REG_CMD_READ until a poll gave
\* the write index or 0x0FFF, then written the GETPTR record (command word and
\* one slot) at the write index, then written the new write index to
\* REG_CMD_WRITE, then polled again until a poll gave the new write index or
\* 0x0FFF, and only then read 32 bits at RAM_CMD + (old write index + 4 mod
\* 4096); it did nothing else.  It returns the word read, also when the last
\* poll gave 0x0FFF, and stores no error indication.
C39_GetPtrOrder ==
  (op = "CmdGetPtr" /\ pc = "idle") =>
    LET n     == Len(calls)
        after == (loc.before + 8) % RAM_CMD_SIZE
        done1 == {loc.before, READ_INDEX_ERROR}
        done2 == {after, READ_INDEX_ERROR}
    IN  /\ cmd_index = after /\ err = -1
        /\ \E j \in 3 .. n - 2 :
             /\ \A k \in 1 .. j - 2 : IsRingPoll(k) /\ (Read16Value(k) \in done1 <=> k = j - 2)
             /\ IsWrite(j - 1, RAM_CMD + loc.before) /\ IsGetPtrRecord(j - 1)
             /\ IsWrite(j, REG_CMD_WRITE) /\ Written16(j) = after
             /\ \A k \in j + 1 .. n - 1 : IsRingPoll(k) /\ (Read16Value(k) \in done2 <=> k = n - 1)
        /\ calls[n][1] = "read" /\ calls[n][2] = RAM_CMD + ((loc.before + 4) % RAM_CMD_SIZE)
        /\ IsRead32(n)
        /\ ret = Read32Value(n)

\* the write index was 4092; the second wait spun and was ended by a fault;
\* the word left in the slot at RAM_CMD + 0 was returned
C39_Witness ==
  /\ op = "CmdGetPtr" /\ pc = "idle" /\ loc.before = 4092 /\ loc.p = 0
  /\ RP = READ_INDEX_ERROR /\ Len(calls) >= 6 /\ IsRingPoll(Len(calls) - 2)
  /\ ret = W32(\h000F, \h4240)

\* the second wait spun and the co-processor answered
C39_WitnessAnswer ==
  /\ op = "CmdGetPtr" /\ pc = "idle" /\ loc.before = 0 /\ loc.p = 4
  /\ RP = 8 /\ Len(calls) >= 6 /\ IsRingPoll(Len(calls) - 2)
  /\ ret = W32(\h000F, \h4240) /\ gh.ops = 1

====
